---------------------------- MODULE Spec2Model ----------------------------
(***************************************************************************)
(* A model of edifact-rs: the EDIFACT lexer (mig/decode/parser/value.rs)   *)
(* and the MIG matcher (mig/decode/value.rs).                              *)
(*                                                                         *)
(* Characters are one-character strings, texts and values are sequences of *)
(* characters.  A parser of the combine library is an operator on a text t *)
(* and the offset i of the next unread character (1-based); it returns a   *)
(* record [ok, i, v]: whether it succeeded, the offset after it, and its   *)
(* output.  Every failure inside the grammar is either wrapped in          *)
(* attempt(..) or a committed failure that ends the whole parse, so a      *)
(* failure carries no offset: the caller resumes from its own offset.      *)
(***************************************************************************)
EXTENDS Integers, Sequences, FiniteSets, TLC

VARIABLES
    text,   \* the input text of parse / decode
    lx,     \* the state of the interchange parser
    sg,     \* the inputs and the output of one call of a checking function
    known,  \* the descriptions handed to decode
    mt      \* the state of match_interchange: raw stack and call frames

vars == <<text, lx, sg, known, mt>>

-----------------------------------------------------------------------------
(* Bounds of the model *)

\* Longest text, after the head, handed to the lexer
MaxLen == 5

\* Most element slots of a segment description and of a raw segment
MaxSlots == 2

\* Longest value and largest declared length handed to the checking functions
MaxValueLen == 3

\* Most segments of an interchange body handed to decode
MaxSegs == 3

-----------------------------------------------------------------------------
(* Characters *)

\* char::is_whitespace, for the characters of the model
is_whitespace(c) == c \in {" ", "\n"}

\* a position that starts a new column count at a newline without counting
\* the line
PosAtSameLine(t, i) ==
    LET nls  == {k \in 1..(i - 1) : t[k] = "\n"}
        last == IF nls = {} THEN 0 ELSE CHOOSE k \in nls : \A m \in nls : m <= k
    IN  [line |-> 1, column |-> i - last]

\* SourcePosition after the characters t[1..i-1] have been read: line and
\* column start at 1, a newline starts a new line at column 1
PosAt(t, i) ==
    LET nls  == {k \in 1..(i - 1) : t[k] = "\n"}
        last == IF nls = {} THEN 0 ELSE CHOOSE k \in nls : \A m \in nls : m <= k
    IN  [line |-> 1 + Cardinality(nls), column |-> i - last]

-----------------------------------------------------------------------------
(* UNA *)

\* the first two characters of the advice taken in the other order
UNA_newSwapped(component_sep, element_sep, decimal_char, escape, reserved, segment_sep) ==
    [component_sep |-> element_sep, element_sep |-> component_sep,
     decimal_char |-> decimal_char, escape |-> escape,
     reserved |-> reserved, segment_sep |-> segment_sep]

UNA_new(component_sep, element_sep, decimal_char, escape, reserved, segment_sep) ==
    [component_sep |-> component_sep, element_sep |-> element_sep,
     decimal_char |-> decimal_char, escape |-> escape,
     reserved |-> reserved, segment_sep |-> segment_sep]

UNA_default ==
    [component_sep |-> ":", element_sep |-> "+", decimal_char |-> ".",
     escape |-> "?", reserved |-> " ", segment_sep |-> "'"]

is_separator(una, c) ==
    una.component_sep = c
        \/ una.segment_sep = c
        \/ una.element_sep = c

\* the escape of the default UNA instead of the declared one
is_escapeDefaultUNA(una, c) == UNA_default.escape = c

is_escape(una, c) == una.escape = c

Fail == [ok |-> FALSE, i |-> 0, v |-> <<>>]

Done(i, v) == [ok |-> TRUE, i |-> i, v |-> v]

\* any(): the next character, whatever it is; fails at the end of input
any(t, i) == IF i <= Len(t) THEN Done(i + 1, t[i]) ELSE Fail

\* string(s): the characters of s, one after the other
RECURSIVE string(_, _, _)
string(s, t, i) ==
    IF s = <<>> THEN Done(i, <<>>)
    ELSE IF i <= Len(t) /\ t[i] = Head(s) THEN string(Tail(s), t, i + 1)
         ELSE Fail

\* n times any(), in a row
RECURSIVE anys(_, _, _, _)
anys(n, t, i, acc) ==
    IF n = 0 THEN Done(i, acc)
    ELSE IF any(t, i).ok THEN anys(n - 1, t, i + 1, Append(acc, any(t, i).v))
    ELSE Fail

\* (string("UNA"), any(), any(), any(), any(), any(), any()).map(UNA::new)
UNA_advice(t, i) ==
    LET una(s, a) ==
            IF s.ok /\ a.ok
            THEN Done(a.i, UNA_new(a.v[1], a.v[2], a.v[3], a.v[4], a.v[5], a.v[6]))
            ELSE Fail
    IN  una(string(<<"U", "N", "A">>, t, i), anys(6, t, i + 3, <<>>))

\* the advice without attempt: once its first character has been read the
\* parser is committed, and value(default) is no longer tried
UNA_parserNoAttempt(t, i) ==
    IF UNA_advice(t, i).ok THEN UNA_advice(t, i)
    ELSE IF string(<<"U">>, t, i).ok THEN Fail ELSE Done(i, UNA_default)

\* attempt(p).or(value(UNA::default())): value reads nothing
UNA_parser(t, i) ==
    IF UNA_advice(t, i).ok THEN UNA_advice(t, i) ELSE Done(i, UNA_default)

-----------------------------------------------------------------------------
(* Data elements *)

\* take_while1(|c| !una.is_escape(c) && !una.is_separator(c)): the offset
\* after the longest run of plain characters from i (i itself when none)
RECURSIVE take_while(_, _, _)
take_while(una, t, i) ==
    IF i <= Len(t) /\ ~is_escape(una, t[i]) /\ ~is_separator(una, t[i])
    THEN take_while(una, t, i + 1)
    ELSE i

\* escaped(take_while1(..), una.escape, any()): plain runs and escape pairs,
\* until the next character is neither; an escape with nothing after it is
\* a committed failure
RECURSIVE escaped(_, _, _)
escaped(una, t, i) ==
    IF i <= Len(t) /\ ~is_escape(una, t[i]) /\ ~is_separator(una, t[i])
    THEN escaped(una, t, take_while(una, t, i))
    ELSE IF i <= Len(t) /\ t[i] = una.escape
         THEN IF i + 1 <= Len(t) THEN escaped(una, t, i + 2) ELSE Fail
         ELSE Done(i, <<>>)

\* (position(), recognize(escaped(..)), position()): recognize returns the
\* characters that were read, as they were read
DataElement_parser(una, t, i) ==
    LET data(r) ==
            IF r.ok
            THEN Done(r.i, [start |-> PosAt(t, i), end |-> PosAt(t, r.i),
                            value |-> SubSeq(t, i, r.i - 1)])
            ELSE Fail
    IN  data(escaped(una, t, i))

char(c, t, i) == IF i <= Len(t) /\ t[i] = c THEN Done(i + 1, c) ELSE Fail

-----------------------------------------------------------------------------
(* Composites, element slots, segments *)

Left(x) == [either |-> "Left", l |-> x]
Right(x) == [either |-> "Right", r |-> x]
IsLeft(e) == e.either = "Left"
IsRight(e) == e.either = "Right"

\* the tail of sep_by1 / sep_by: (separator, parser) pairs as long as the
\* separator is there; a parser failing after its separator fails the whole
RECURSIVE sep_rest_data(_, _, _, _)
sep_rest_data(una, t, i, acc) ==
    LET next(d) ==
            IF d.ok THEN sep_rest_data(una, t, d.i, Append(acc, d.v)) ELSE Fail
    IN  IF ~char(una.component_sep, t, i).ok THEN Done(i, acc)
        ELSE next(DataElement_parser(una, t, i + 1))

\* sep_by1(DataElement::parser(una), char(una.component_sep))
sep_by1_data(una, t, i) ==
    LET rest(d) == IF d.ok THEN sep_rest_data(una, t, d.i, <<d.v>>) ELSE Fail
    IN  rest(DataElement_parser(una, t, i))

\* the composite without elements.insert(0, first)
Composite_parserDropFirst(una, t, i) ==
    LET composite(first, rest) ==
            IF rest.ok THEN Done(rest.i, [elements |-> rest.v]) ELSE Fail
        after(first) ==
            IF first.ok /\ char(una.component_sep, t, first.i).ok
            THEN composite(first, sep_by1_data(una, t, first.i + 1))
            ELSE Fail
    IN  after(DataElement_parser(una, t, i))

\* (DataElement, char(component_sep), sep_by1(DataElement, char(component_sep)))
\* and elements.insert(0, first)
Composite_parser(una, t, i) ==
    LET composite(first, rest) ==
            IF rest.ok
            THEN Done(rest.i, [elements |-> <<first.v>> \o rest.v])
            ELSE Fail
        after(first) ==
            IF first.ok /\ char(una.component_sep, t, first.i).ok
            THEN composite(first, sep_by1_data(una, t, first.i + 1))
            ELSE Fail
    IN  after(DataElement_parser(una, t, i))

\* attempt(Composite::parser(una).map(Left)).or(DataElement::parser(una).map(Right))
element(una, t, i) ==
    LET either(c, d) ==
            IF c.ok THEN Done(c.i, Left(c.v))
            ELSE IF d.ok THEN Done(d.i, Right(d.v))
            ELSE Fail
    IN  either(Composite_parser(una, t, i), DataElement_parser(una, t, i))

RECURSIVE sep_rest_element(_, _, _, _)
sep_rest_element(una, t, i, acc) ==
    LET next(e) ==
            IF e.ok THEN sep_rest_element(una, t, e.i, Append(acc, e.v)) ELSE Fail
    IN  IF ~char(una.element_sep, t, i).ok THEN Done(i, acc)
        ELSE next(element(una, t, i + 1))

\* sep_by(element, char(element_sep))
sep_by_element(una, t, i) ==
    LET rest(e) == IF e.ok THEN sep_rest_element(una, t, e.i, <<e.v>>) ELSE Fail
    IN  rest(element(una, t, i))

\* spaces(): skips whitespace, never fails
RECURSIVE spaces(_, _)
spaces(t, i) ==
    IF i <= Len(t) /\ is_whitespace(t[i]) THEN spaces(t, i + 1) ELSE i

\* a segment parser that skips whitespace before the tag as well
Segment_parserLeadingSpaces(una, t, i) ==
    LET segment(tag, es) ==
            IF es.ok /\ char(una.segment_sep, t, es.i).ok
            THEN Done(spaces(t, es.i + 1), [tag |-> tag.v, elements |-> es.v])
            ELSE Fail
        after(tag) ==
            IF tag.ok /\ char(una.element_sep, t, tag.i).ok
            THEN segment(tag, sep_by_element(una, t, tag.i + 1))
            ELSE Fail
    IN  after(DataElement_parser(una, t, spaces(t, i)))

\* (DataElement tag, char(element_sep), sep_by(element, char(element_sep)),
\*  char(segment_sep), attempt(spaces()))
Segment_parser(una, t, i) ==
    LET segment(tag, es) ==
            IF es.ok /\ char(una.segment_sep, t, es.i).ok
            THEN Done(spaces(t, es.i + 1), [tag |-> tag.v, elements |-> es.v])
            ELSE Fail
        after(tag) ==
            IF tag.ok /\ char(una.element_sep, t, tag.i).ok
            THEN segment(tag, sep_by_element(una, t, tag.i + 1))
            ELSE Fail
    IN  after(DataElement_parser(una, t, i))

-----------------------------------------------------------------------------
(* The interchange parser, step by step:                                   *)
(*   UNA::parser().then(|una| repeat_until(attempt(Segment::parser), eof())) *)
(* st is "una" before the UNA resolver has run, "segments" inside          *)
(* repeat_until, "ok" when eof() ended it and "err" when a segment failed. *)

LexStart == [st |-> "una", i |-> 1, una |-> UNA_default, segments |-> <<>>]

AtEof(t, l) == l.i > Len(t)

UNAStep(t, l) ==
    LET r == UNA_parser(t, l.i) IN
    IF r.ok
    THEN [l EXCEPT !.st = "segments", !.i = r.i, !.una = r.v]
    ELSE [l EXCEPT !.st = "err"]

\* repeat_until: eof() ends the repetition
EofStep(t, l) == [l EXCEPT !.st = "ok"]

\* repeat_until: one more attempt(Segment::parser(&una))
SegmentStepKeepOnError(t, l) ==
    LET r == Segment_parser(l.una, t, l.i) IN
    IF r.ok
    THEN [l EXCEPT !.i = r.i, !.segments = Append(@, r.v)]
    ELSE [l EXCEPT !.st = "ok"]

SegmentStep(t, l) ==
    LET r == Segment_parser(l.una, t, l.i) IN
    IF r.ok
    THEN [l EXCEPT !.i = r.i, !.segments = Append(@, r.v)]
    ELSE [l EXCEPT !.st = "err", !.segments = <<>>]

LexStep(t, l) ==
    CASE l.st = "una" -> UNAStep(t, l)
      [] l.st = "segments" /\ AtEof(t, l) -> EofStep(t, l)
      [] l.st = "segments" /\ ~AtEof(t, l) -> SegmentStep(t, l)
      [] OTHER -> l

RECURSIVE LexRun(_, _)
LexRun(t, l) == IF l.st \in {"ok", "err"} THEN l ELSE LexRun(t, LexStep(t, l))

\* parse(input): Ok(interchange) or Err(Error::Parse)
parse(t) ==
    LET l == LexRun(t, LexStart) IN
    IF l.st = "ok"
    THEN [ok |-> TRUE, una |-> l.una, segments |-> l.segments]
    ELSE [ok |-> FALSE, una |-> UNA_default, segments |-> <<>>]

-----------------------------------------------------------------------------
(* Specification of the lexer: every text of at most MaxLen characters     *)
(* after one of the heads.                                                 *)

Alphabet == {"A", ":", "+", "?", "'", " ", "\n"}

RECURSIVE Texts(_)
Texts(n) ==
    IF n = 0 THEN {<<>>}
    ELSE LET shorter == Texts(n - 1) IN
         shorter \cup {Append(s, c) : s \in {x \in shorter : Len(x) = n - 1},
                                      c \in Alphabet}

\* no UNA; UNA and what follows; a UNA that swaps the roles of the default
\* characters; a UNA that declares | and ! and leaves : and ? undeclared; a
\* UNA that declares the space as element separator; a UNA that declares the
\* space as escape
Heads ==
    { <<>>,
      <<"U", "N", "A">>,
      <<"U", "N", "A", "+", ":", ".", "'", " ", "?">>,
      <<"U", "N", "A", "|", "+", ".", "!", " ", "'">>,
      <<"U", "N", "A", ":", " ", ".", "?", " ", "'">>,
      <<"U", "N", "A", ":", "+", ".", " ", " ", "'">> }

Idle == [op |-> "idle"]

\* match_interchange has not been called
MatchIdle == [st |-> "idle", stack |-> <<>>, frames |-> <<>>, result |-> <<>>,
              routed |-> <<>>]

LexInit ==
    /\ text \in {h \o b : h \in Heads, b \in Texts(MaxLen)}
    /\ lx = LexStart
    /\ sg = Idle
    /\ known = <<>>
    /\ mt = MatchIdle

ParseUNA ==
    /\ lx.st = "una"
    /\ lx' = UNAStep(text, lx)
    /\ UNCHANGED <<text, sg, known, mt>>

ParseSegment ==
    /\ lx.st = "segments"
    /\ ~AtEof(text, lx)
    /\ lx' = SegmentStep(text, lx)
    /\ UNCHANGED <<text, sg, known, mt>>

ParseEof ==
    /\ lx.st = "segments"
    /\ AtEof(text, lx)
    /\ lx' = EofStep(text, lx)
    /\ UNCHANGED <<text, sg, known, mt>>

LexNext == ParseUNA \/ ParseSegment \/ ParseEof

SpecLex == LexInit /\ [][LexNext]_vars

-----------------------------------------------------------------------------
(* Descriptions (mig/description.rs) and syntax errors (mig/error.rs)      *)

St == {"M", "R", "O", "D", "C", "N"}

is_optional(st) == st = "O" \/ st = "C" \/ st = "D"

is_required(st) == st = "R" \/ st = "M"

is_not_used(st) == st = "N"

\* SyntaxError::invalid_format(), which mig/decode never calls
SyntaxError_invalid_format == [code |-> 37]

SyntaxError_invalid_value == [code |-> 12]
SyntaxError_missing == [code |-> 13]
SyntaxError_too_many_parts == [code |-> 16]
SyntaxError_data_element_too_long == [code |-> 39]
SyntaxError_data_element_too_short == [code |-> 40]

DataElementError_new(pos, syntax_error) ==
    [pos |-> pos, syntax_error |-> syntax_error]

CompositeError_syntax_error(pos, syntax_error) ==
    [pos |-> pos, syntax_error |-> <<syntax_error>>, errors |-> <<>>]

\* Result: Ok(v) and Err(e); Option: None and Some(x)
Ok(v) == [ok |-> TRUE, v |-> v]
Err(e) == [ok |-> FALSE, e |-> e]
None == <<>>
Some(x) == <<x>>

\* a value stored as Matched::Int
Matched_Int(value) == [matched |-> "Int", int |-> value]

\* Matched::Text(value)
Matched_Text(value) == [matched |-> "Text", text |-> value]

-----------------------------------------------------------------------------
(* Checking (mig/decode/value.rs, CHECKING)                                *)

\* the status check with the two error codes exchanged
check_stCodesSwapped(st, input) ==
    IF input = <<>> /\ is_required(st) THEN Err(SyntaxError_invalid_value)
    ELSE IF input # <<>> /\ is_not_used(st) THEN Err(SyntaxError_missing)
    ELSE Ok(input)

check_st(st, input) ==
    IF input = <<>> /\ is_required(st) THEN Err(SyntaxError_missing)
    ELSE IF input # <<>> /\ is_not_used(st) THEN Err(SyntaxError_invalid_value)
    ELSE Ok(input)

\* char::len_utf8 on the characters of the model: the bytes that a character
\* takes in a String
len_utf8(c) == IF c = "é" THEN 2 ELSE 1

\* String::len(): the length of the string in bytes
RECURSIVE len(_)
len(input) == IF input = <<>> THEN 0 ELSE len_utf8(Head(input)) + len(Tail(input))

check_size(st, size, length, input) ==
    CASE size = "Exactly" ->
           IF (is_optional(st) \/ is_not_used(st)) /\ input = <<>> THEN Ok(input)
           ELSE IF len(input) < length THEN Err(SyntaxError_data_element_too_short)
           ELSE IF len(input) > length THEN Err(SyntaxError_data_element_too_long)
           ELSE Ok(input)
      [] size = "AtMost" ->
           IF len(input) > length THEN Err(SyntaxError_data_element_too_long)
           ELSE Ok(input)

\* a format is [class, size]: Format::Alphanumeric(size), Alpha(size), Numeric(size)
check_format(st, format, length, input) ==
    CASE format.class = "Alphanumeric" -> check_size(st, format.size, length, input)
      [] format.class = "Alpha" -> check_size(st, format.size, length, input)
      [] format.class = "Numeric" -> check_size(st, format.size, length, input)

-----------------------------------------------------------------------------
(* Matching of data elements, composites and segments                      *)

match_data_element(pos, desc, de) ==
    LET formatted(value) ==
            IF value.ok
            THEN Ok([index |-> pos, description |-> desc,
                     value |-> Some(Matched_Text(value.v))])
            ELSE Err(DataElementError_new(pos, value.e))
        data(st_checked) ==
            IF ~st_checked.ok THEN Err(DataElementError_new(pos, st_checked.e))
            ELSE IF st_checked.v = <<>>
            THEN Ok([index |-> pos, description |-> desc, value |-> None])
            ELSE formatted(check_format(desc.st, desc.format, desc.length,
                                        st_checked.v))
    IN  data(check_st(desc.st, de.value))

\* the state of the two zipping loops
LoopStart == [position |-> 0, syntax_error |-> None, matches |-> <<>>, errors |-> <<>>]

\* Either::Left(x), Either::Right(x), or x itself
wrap(side, x) ==
    CASE side = "Left" -> Left(x)
      [] side = "Right" -> Right(x)
      [] OTHER -> x

\* match r { Ok(m) => matches.push(m), Err(e) => errors.push(e) }, m and e
\* wrapped as the sides say
push(s, r, m_side, e_side) ==
    [s EXCEPT !.matches = IF r.ok THEN Append(@, wrap(m_side, r.v)) ELSE @,
              !.errors = IF r.ok THEN @ ELSE Append(@, wrap(e_side, r.e))]

\* the missing error recorded for every status but N
push_missingUnlessNotUsed(s, st, e_side) ==
    IF ~is_not_used(st)
    THEN [s EXCEPT !.errors = Append(@, wrap(e_side,
                        DataElementError_new(s.position, SyntaxError_missing)))]
    ELSE s

\* if st.is_required() { errors.push(DataElementError::new(position, missing)) }
push_missing(s, st, e_side) ==
    IF is_required(st)
    THEN [s EXCEPT !.errors = Append(@, wrap(e_side,
                        DataElementError_new(s.position, SyntaxError_missing)))]
    ELSE s

\* position += 1
advance(s) == [s EXCEPT !.position = @ + 1]

\* the end of both loops: an error as soon as something was collected
loop_result(pos, s, matched) ==
    IF s.errors # <<>> \/ s.syntax_error # None
    THEN Err([pos |-> pos, syntax_error |-> s.syntax_error, errors |-> s.errors])
    ELSE Ok(matched)

\* the loop of match_composite_help: descs and values are what the two
\* iterators still hold
RECURSIVE match_composite_loop(_, _, _)
match_composite_loop(descs, values, s) ==
    IF descs = <<>> /\ values = <<>> THEN s
    ELSE IF descs = <<>>
    THEN [s EXCEPT !.syntax_error = Some(SyntaxError_too_many_parts)]
    ELSE IF values = <<>>
    THEN match_composite_loop(Tail(descs), <<>>,
                              advance(push_missing(s, Head(descs).st, "None")))
    ELSE match_composite_loop(Tail(descs), Tail(values),
             advance(push(s, match_data_element(s.position, Head(descs), Head(values)),
                          "None", "None")))

composite_result(pos, s) == loop_result(pos, s, s.matches)

match_composite_help(pos, descs_vec, values_vec) ==
    composite_result(pos, match_composite_loop(descs_vec, values_vec, LoopStart))

match_composite(pos, desc, composite) ==
    IF is_required(desc.st) /\ composite.elements = <<>>
    THEN Err(CompositeError_syntax_error(pos, SyntaxError_missing))
    ELSE LET matched(result) ==
                 IF result.ok
                 THEN Ok([index |-> pos, label |-> desc.label, st |-> desc.st,
                          name |-> desc.name, elements |-> result.v])
                 ELSE Err(result.e)
         IN  matched(match_composite_help(pos, desc.elements, composite.elements))

\* the status of an element slot's description
slot_st(d) == IF IsLeft(d) THEN d.l.st ELSE d.r.st

\* one turn of the loop that passes over an empty bare value for every
\* composite that is not required
match_slotSkipOptional(s, d, v) ==
    CASE IsRight(d) /\ IsLeft(v) ->
           [s EXCEPT !.errors = Append(@, Right(DataElementError_new(
                                              s.position, SyntaxError_invalid_value)))]
      [] IsLeft(d) /\ IsRight(v) ->
           IF ~(v.r.value = <<>> /\ ~is_required(d.l.st))
           THEN push(s, match_composite(s.position, d.l, [elements |-> <<v.r>>]), "Left", "Left")
           ELSE s
      [] IsLeft(d) /\ IsLeft(v) ->
           push(s, match_composite(s.position, d.l, v.l), "Left", "Left")
      [] IsRight(d) /\ IsRight(v) ->
           push(s, match_data_element(s.position, d.r, v.r), "Right", "Right")

\* one turn of the loop that checks the first component of a raw composite
\* against a bare description
match_slotFirstComponent(s, d, v) ==
    CASE IsRight(d) /\ IsLeft(v) ->
           push(s, match_data_element(s.position, d.r, v.l.elements[1]), "Right", "Right")
      [] IsLeft(d) /\ IsRight(v) ->
           IF ~(v.r.value = <<>> /\ d.l.st = "N")
           THEN push(s, match_composite(s.position, d.l, [elements |-> <<v.r>>]), "Left", "Left")
           ELSE s
      [] IsLeft(d) /\ IsLeft(v) ->
           push(s, match_composite(s.position, d.l, v.l), "Left", "Left")
      [] IsRight(d) /\ IsRight(v) ->
           push(s, match_data_element(s.position, d.r, v.r), "Right", "Right")

\* one turn of the loop of match_segment with a description d and a value v
match_slot(s, d, v) ==
    CASE IsRight(d) /\ IsLeft(v) ->
           [s EXCEPT !.errors = Append(@, Right(DataElementError_new(
                                              s.position, SyntaxError_invalid_value)))]
      [] IsLeft(d) /\ IsRight(v) ->
           IF ~(v.r.value = <<>> /\ d.l.st = "N")
           THEN push(s, match_composite(s.position, d.l, [elements |-> <<v.r>>]), "Left", "Left")
           ELSE s
      [] IsLeft(d) /\ IsLeft(v) ->
           push(s, match_composite(s.position, d.l, v.l), "Left", "Left")
      [] IsRight(d) /\ IsRight(v) ->
           push(s, match_data_element(s.position, d.r, v.r), "Right", "Right")

\* the loop of match_segment leaving at the first error it collects
RECURSIVE match_segment_loopFirstError(_, _, _)
match_segment_loopFirstError(descs, values, s) ==
    IF s.errors # <<>> \/ (descs = <<>> /\ values = <<>>) THEN s
    ELSE IF descs = <<>>
    THEN [s EXCEPT !.syntax_error = Some(SyntaxError_too_many_parts)]
    ELSE IF values = <<>>
    THEN match_segment_loopFirstError(Tail(descs), <<>>,
                            advance(push_missing(s, slot_st(Head(descs)), "Right")))
    ELSE match_segment_loopFirstError(Tail(descs), Tail(values),
                            advance(match_slot(s, Head(descs), Head(values))))

\* the loop of match_segment going on after the descriptions have run out:
\* the slots beyond the description are skipped
RECURSIVE match_segment_loopSkipExcess(_, _, _)
match_segment_loopSkipExcess(descs, values, s) ==
    IF descs = <<>> THEN s
    ELSE IF values = <<>>
    THEN match_segment_loopSkipExcess(Tail(descs), <<>>,
                            advance(push_missing(s, slot_st(Head(descs)), "Right")))
    ELSE match_segment_loopSkipExcess(Tail(descs), Tail(values),
                            advance(match_slot(s, Head(descs), Head(values))))

\* the loop of match_segment
RECURSIVE match_segment_loop(_, _, _)
match_segment_loop(descs, values, s) ==
    IF descs = <<>> /\ values = <<>> THEN s
    ELSE IF descs = <<>>
    THEN [s EXCEPT !.syntax_error = Some(SyntaxError_too_many_parts)]
    ELSE IF values = <<>>
    THEN match_segment_loop(Tail(descs), <<>>,
                            advance(push_missing(s, slot_st(Head(descs)), "Right")))
    ELSE match_segment_loop(Tail(descs), Tail(values),
                            advance(match_slot(s, Head(descs), Head(values))))

\* Ok(Segment { index: pos, .., elements: matches })
matched_Segment(pos, desc, matches) ==
    [index |-> pos, counter |-> desc.counter, number |-> desc.number,
     tag |-> desc.tag, st |-> desc.st, max_reps |-> desc.max_reps,
     name |-> desc.name, elements |-> matches]

segment_result(pos, desc, s) == loop_result(pos, s, matched_Segment(pos, desc, s.matches))

match_segment(pos, desc, segment) ==
    segment_result(pos, desc, match_segment_loop(desc.elements, segment.elements, LoopStart))

-----------------------------------------------------------------------------
(* Which description a raw segment belongs to                              *)

desc_Segmentgroup(counter, st, max_reps, segments) ==
    [counter |-> counter, label |-> <<>>, st |-> st, max_reps |-> max_reps,
     name |-> <<>>, segments |-> segments]

desc_Interchange(unb, unh, segments, unt, unz) ==
    [unb |-> unb, message |-> [unh |-> unh, segments |-> segments, unt |-> unt],
     unz |-> unz]

\* str::contains
contains(s, sub) ==
    \E k \in 0..(Len(s) - Len(sub)) : SubSeq(s, k + 1, k + Len(sub)) = sub

\* a qualifier by the capital spelling alone
is_qualifierCapitalOnly(de) ==
    contains(de.name, <<"Q", "u", "a", "l", "i", "f", "i", "e", "r">>)

is_qualifier(de) ==
    contains(de.name, <<"Q", "u", "a", "l", "i", "f", "i", "e", "r">>) \/ contains(de.name, <<"q", "u", "a", "l", "i", "f", "i", "e", "r">>)

\* elements.get(0).and_then(|element| match element {
\*     Left(composite) => composite.elements.get(0), Right(data_element) => Some(data_element) })
first_data_element(elements) ==
    IF elements = <<>> THEN None
    ELSE IF IsLeft(elements[1])
         THEN IF elements[1].l.elements = <<>> THEN None
              ELSE Some(elements[1].l.elements[1])
         ELSE Some(elements[1].r)

\* .and_then(|data_element| if data_element.is_qualifier() { Some(usage) } else { None })
qualifier_usage(o) ==
    IF o # None /\ is_qualifier(o[1]) THEN Some(o[1].usage) ELSE None

\* match (qualifier, option_data_element)
qualifier_matches(qualifier, option_data_element) ==
    IF qualifier = None \/ option_data_element = None THEN FALSE
    ELSE CASE qualifier[1].type = "OneOf" ->
                \E k \in 1..Len(qualifier[1].choices) :
                    qualifier[1].choices[k].value = option_data_element[1].value
           [] qualifier[1].type = "Static" ->
                qualifier[1].value.value = option_data_element[1].value
           [] OTHER -> FALSE

\* the match by the tag alone, whatever check_qualifier says
matches_segmentTagOnly(desc, check_qualifier, value) == desc.tag = value.tag.value

matches_segment(desc, check_qualifier, value) ==
    IF ~check_qualifier THEN desc.tag = value.tag.value
    ELSE IF desc.tag # value.tag.value THEN FALSE
    ELSE qualifier_matches(qualifier_usage(first_data_element(desc.elements)),
                           first_data_element(value.elements))

matches_segmentgroup(desc, check_qualifier, value) ==
    IF desc.segments # <<>> /\ IsRight(desc.segments[1])
    THEN matches_segment(desc.segments[1].r, check_qualifier, value)
    ELSE FALSE

-----------------------------------------------------------------------------
(* The checking functions on their own: one call of check_st, check_format, *)
(* match_data_element, match_segment or matches_segment on inputs drawn     *)
(* from bounded sets.                                                       *)

Format(class, size) == [class |-> class, size |-> size]

Usage_Text == [type |-> "Text"]
Usage_Integer == [type |-> "Integer"]
Usage_Decimal == [type |-> "Decimal"]
Usage_OneOf(choices) == [type |-> "OneOf", choices |-> choices]
Usage_Static(value) == [type |-> "Static", value |-> value]
Choice(value) == [value |-> value]

desc_DataElement(name, st, format, length, usage) ==
    [label |-> <<>>, name |-> name, st |-> st, format |-> format,
     length |-> length, usage |-> usage]

desc_Composite(st, elements) ==
    [label |-> <<>>, st |-> st, name |-> <<>>, elements |-> elements]

desc_Segment(counter, tag, st, max_reps, elements) ==
    [counter |-> counter, number |-> 1, tag |-> tag, st |-> st,
     max_reps |-> max_reps, name |-> <<>>, elements |-> elements]

RECURSIVE SeqsUpTo(_, _)
SeqsUpTo(S, n) ==
    IF n = 0 THEN {<<>>}
    ELSE LET shorter == SeqsUpTo(S, n - 1) IN
         shorter \cup {Append(q, x) : q \in shorter, x \in S}

RECURSIVE Join(_, _)
Join(ss, c) ==
    IF ss = <<>> THEN <<>>
    ELSE IF Len(ss) = 1 THEN ss[1]
    ELSE ss[1] \o <<c>> \o Join(Tail(ss), c)

\* the values of a data element: a letter, a digit and a character of two bytes
Values == SeqsUpTo({"A", "1", "é"}, MaxValueLen)

DataElementDescs ==
    {desc_DataElement(<<>>, st, Format(class, size), length, usage) :
        st \in St, class \in {"Alphanumeric", "Alpha", "Numeric"},
        size \in {"Exactly", "AtMost"}, length \in 1..MaxValueLen,
        usage \in {Usage_Text, Usage_Integer, Usage_Decimal,
                   Usage_OneOf(<<Choice(<<"A">>), Choice(<<"1">>)>>),
                   Usage_Static(Choice(<<"A">>))}}

an(st, size, length) ==
    desc_DataElement(<<>>, st, Format("Alphanumeric", size), length, Usage_Text)

SlotDescs ==
    {Right(an("M", "AtMost", 2)), Right(an("O", "AtMost", 2)),
     Right(an("N", "AtMost", 2)), Right(an("R", "Exactly", 2)),
     Left(desc_Composite("M", <<an("M", "AtMost", 2), an("R", "AtMost", 2)>>)),
     Left(desc_Composite("O", <<an("M", "AtMost", 2), an("O", "AtMost", 2)>>)),
     Left(desc_Composite("N", <<an("O", "AtMost", 2), an("N", "AtMost", 2)>>)),
     Left(desc_Composite("R", <<an("M", "Exactly", 2)>>)),
     Left(desc_Composite("D", <<an("M", "AtMost", 2), an("M", "AtMost", 2)>>)),
     Left(desc_Composite("C", <<an("O", "AtMost", 2), an("R", "AtMost", 2)>>)),
     Left(desc_Composite("M", <<an("M", "AtMost", 2), an("O", "AtMost", 2),
                                an("O", "AtMost", 2), an("R", "AtMost", 2)>>))}

SegmentDescs ==
    {desc_Segment(<<"2">>, <<"B", "G", "M">>, "M", 1, e) : e \in SeqsUpTo(SlotDescs, MaxSlots)}

\* the text of one element slot: bare values and composites
SlotTexts ==
    {<<>>, <<"A">>, <<"A", "A", "A">>, <<"A", ":">>, <<":", "A">>,
     <<"A", ":", "A">>, <<"A", ":", "A", ":", "A">>}

SegmentTexts ==
    {<<"B", "G", "M", "+">> \o Join(q, "+") \o <<"'">> :
        q \in SeqsUpTo(SlotTexts, MaxSlots) \ {<<>>}}

\* an..3 with a name and a usage
an3(name, st, usage) ==
    desc_DataElement(name, st, Format("Alphanumeric", "AtMost"), 3, usage)

\* names of data elements: the two spellings of a qualifier, in the middle of
\* a name as well, a spelling is_qualifier does not know, and other names
QualifierNames ==
    {<<"Q", "u", "a", "l", "i", "f", "i", "e", "r">>, <<"C", "o", "d", "e", " ", "q", "u", "a", "l", "i", "f", "i", "e", "r">>,
     <<"Q", "U", "A", "L", "I", "F", "I", "E", "R">>, <<"Q", "u", "a", "l", "i", "t", "y">>, <<"A">>, <<>>}

QualifierUsages ==
    {Usage_Text, Usage_Integer, Usage_Decimal,
     Usage_OneOf(<<Choice(<<"A">>), Choice(<<"1">>)>>), Usage_OneOf(<<>>),
     Usage_Static(Choice(<<"A">>))}

\* what a description may begin with: nothing, a data element, a composite
QualifierSlots ==
    {<<>>, <<Left(desc_Composite("M", <<>>))>>}
    \cup {<<Right(an3(name, "M", usage))>> :
              name \in QualifierNames, usage \in QualifierUsages}
    \cup {<<Left(desc_Composite("M", <<an3(name, "M", usage),
                                       an3(<<"Q", "u", "a", "l", "i", "f", "i", "e", "r">>, "M", Usage_Static(Choice(<<"1">>)))>>))>> :
              name \in QualifierNames, usage \in QualifierUsages}

QualifierDescs ==
    {desc_Segment(<<"4">>, tag, "M", 1, slots) :
        tag \in {<<"R", "F", "F">>, <<"D", "T", "M">>}, slots \in QualifierSlots}

QualifierTexts ==
    {tag \o <<"+">> \o slot \o <<"'">> :
        tag \in {<<"R", "F", "F">>, <<"D", "T", "M">>},
        slot \in {<<>>, <<"A">>, <<"1">>, <<"A", "A">>, <<"A", ":", "1">>,
                  <<"1", ":", "A">>, <<":", "A">>}}

SegInit ==
    /\ lx = LexStart
    /\ known = <<>>
    /\ mt = MatchIdle
    /\ \/ /\ text \in Values
          /\ \E desc \in DataElementDescs :
                sg = [op |-> "element", desc |-> desc,
                      value |-> DataElement_parser(UNA_default, text, 1).v,
                      pos |-> 0, out |-> <<>>]
       \/ /\ text \in SegmentTexts
          /\ \E desc \in SegmentDescs :
                sg = [op |-> "segment", desc |-> desc,
                      value |-> Segment_parser(UNA_default, text, 1).v,
                      pos |-> 0, out |-> <<>>]
       \/ /\ text \in QualifierTexts
          /\ \E desc \in QualifierDescs :
                sg = [op |-> "run", desc |-> desc,
                      value |-> Segment_parser(UNA_default, text, 1).v,
                      check_qualifier |-> FALSE, out |-> <<>>]

CheckSt ==
    /\ sg.op = "element"
    /\ sg' = [sg EXCEPT !.op = "check_st",
                        !.out = check_st(sg.desc.st, sg.value.value)]
    /\ UNCHANGED <<text, lx, known, mt>>

CheckFormat ==
    /\ sg.op = "element"
    /\ sg' = [sg EXCEPT !.op = "check_format",
                        !.out = check_format(sg.desc.st, sg.desc.format,
                                             sg.desc.length, sg.value.value)]
    /\ UNCHANGED <<text, lx, known, mt>>

MatchDataElement ==
    /\ sg.op = "element"
    /\ \E pos \in 0..1 :
          sg' = [sg EXCEPT !.op = "match_data_element", !.pos = pos,
                           !.out = match_data_element(pos, sg.desc, sg.value)]
    /\ UNCHANGED <<text, lx, known, mt>>

MatchSegment ==
    /\ sg.op = "segment"
    /\ \E pos \in 0..1 :
          sg' = [sg EXCEPT !.op = "match_segment", !.pos = pos,
                           !.out = match_segment(pos, sg.desc, sg.value)]
    /\ UNCHANGED <<text, lx, known, mt>>

MatchesSegment ==
    /\ sg.op = "run"
    /\ \E check_qualifier \in BOOLEAN :
          sg' = [sg EXCEPT !.op = "matches_segment",
                           !.check_qualifier = check_qualifier,
                           !.out = matches_segment(sg.desc, check_qualifier, sg.value)]
    /\ UNCHANGED <<text, lx, known, mt>>

SegNext ==
    CheckSt \/ CheckFormat \/ MatchDataElement \/ MatchSegment \/ MatchesSegment

SpecSeg == SegInit /\ [][SegNext]_vars

-----------------------------------------------------------------------------
(* The runs of descriptions and the walk over them                          *)

get_counter(desc) == IF IsLeft(desc) THEN desc.l.counter ELSE desc.r.counter

\* how many descriptions from the k-th on carry the counter c in a row
RECURSIVE run_length(_, _, _)
run_length(descs, c, k) ==
    IF k <= Len(descs) /\ get_counter(descs[k]) = c
    THEN 1 + run_length(descs, c, k + 1)
    ELSE 0

\* descs.iter().group_by(|v| get_counter(v)): the runs of consecutive
\* descriptions with the same counter
RECURSIVE group_by(_)
group_by(descs) ==
    IF descs = <<>> THEN <<>>
    ELSE <<SubSeq(descs, 1, run_length(descs, get_counter(descs[1]), 1))>>
         \o group_by(SubSeq(descs, run_length(descs, get_counter(descs[1]), 1) + 1,
                            Len(descs)))

\* the least member of a set of indices, 0 for none
first_index(S) == IF S = {} THEN 0 ELSE CHOOSE i \in S : \A j \in S : i <= j

\* next_descs.iter().position(..): 1-based, 0 for None
position(next_descs, check_qualifier, v) ==
    first_index({i \in 1..Len(next_descs) :
        IF IsLeft(next_descs[i])
        THEN matches_segmentgroup(next_descs[i].l, check_qualifier, v)
        ELSE matches_segment(next_descs[i].r, check_qualifier, v)})

-----------------------------------------------------------------------------
(* match_interchange and matching, step by step.  The raw segments are a   *)
(* stack whose top is its last element; every call of matching is a frame: *)
(* runs are the runs of the for loop not yet visited, in_run says that the *)
(* while loop of the run next_descs is going on.                           *)

\* the descriptions in the order UNB, UNH, message body, UNT, UNZ
flattenedBodyFirst(desc) ==
    desc.message.segments
        \o <<Right(desc.unb), Right(desc.message.unh)>>
        \o <<Right(desc.message.unt), Right(desc.unz)>>

flattened(desc) ==
    <<Right(desc.unb), Right(desc.message.unh)>>
        \o desc.message.segments
        \o <<Right(desc.message.unt), Right(desc.unz)>>

\* values.reverse()
reverse(s) == [k \in 1..Len(s) |-> s[Len(s) + 1 - k]]

\* the start of matching(pos, descs, stack); group is the description of the
\* segment group whose body descs is, None at the top
NewFrame(pos, descs, group) ==
    [runs |-> group_by(descs), next_descs |-> <<>>, check_qualifier |-> FALSE,
     in_run |-> FALSE, index |-> pos, matches |-> <<>>, errors |-> <<>>,
     group |-> group]

MatchStart(desc, value) ==
    [st |-> "matching", stack |-> reverse(value.segments),
     frames |-> <<NewFrame(0, flattened(desc), None)>>, result |-> None,
     routed |-> <<>>]

Top(m) == m.frames[Len(m.frames)]

with_top(m, f) == [m EXCEPT !.frames[Len(m.frames)] = f]

\* what stack.pop() returns, and what it leaves
Peek(m) == m.stack[Len(m.stack)]
popped(m) == SubSeq(m.stack, 1, Len(m.stack) - 1)

next_match(m) == position(Top(m).next_descs, Top(m).check_qualifier, Peek(m))

CanNextRun(m) == ~Top(m).in_run /\ Top(m).runs # <<>>
CanReturn(m) == ~Top(m).in_run /\ Top(m).runs = <<>> /\ Len(m.frames) > 1
CanFinish(m) == ~Top(m).in_run /\ Top(m).runs = <<>> /\ Len(m.frames) = 1
CanPopNone(m) == Top(m).in_run /\ m.stack = <<>>
CanMiss(m) == Top(m).in_run /\ m.stack # <<>> /\ next_match(m) = 0
CanSegment(m) ==
    /\ Top(m).in_run /\ m.stack # <<>> /\ next_match(m) # 0
    /\ IsRight(Top(m).next_descs[next_match(m)])
CanGroup(m) ==
    /\ Top(m).in_run /\ m.stack # <<>> /\ next_match(m) # 0
    /\ IsLeft(Top(m).next_descs[next_match(m)])

\* for (_counter, next) in ..: the next run, check_qualifier fixed here
start_run(f) ==
    [f EXCEPT !.next_descs = Head(f.runs),
              !.check_qualifier = Len(Head(f.runs)) > 1,
              !.runs = Tail(f.runs),
              !.in_run = TRUE]

leave_run(f) == [f EXCEPT !.in_run = FALSE]

NextRunStep(m) == with_top(m, start_run(Top(m)))

\* while let Some(v) = stack.pop(): None ends the loop
PopNoneStep(m) == with_top(m, leave_run(Top(m)))

\* a miss that puts the raw segment back under the stack
MissStepReorder(m) ==
    [with_top(m, leave_run(Top(m))) EXCEPT !.stack = <<Peek(m)>> \o popped(m)]

\* a miss that pushes the raw segment back and stays in the run
MissStepStay(m) == [m EXCEPT !.stack = Append(popped(m), Peek(m))]

\* no description of the run matches: stack.push(v); break
MissStep(m) ==
    [with_top(m, leave_run(Top(m))) EXCEPT !.stack = Append(popped(m), Peek(m))]

remove(s, i) == SubSeq(s, 1, i - 1) \o SubSeq(s, i + 1, Len(s))

\* a turn that gives up the whole matching at the first failing segment: no
\* run is left to go through
segment_turnStopOnError(f, i, v) ==
    IF match_segment(f.index, f.next_descs[i].r, v).ok
    THEN [push(f, match_segment(f.index, f.next_descs[i].r, v), "Right", "None") EXCEPT
            !.index = @ + 1,
            !.next_descs = IF f.next_descs[i].r.max_reps = 1 THEN remove(@, i) ELSE @]
    ELSE [push(f, match_segment(f.index, f.next_descs[i].r, v), "Right", "None") EXCEPT
            !.index = @ + 1, !.runs = <<>>, !.in_run = FALSE]

\* a turn that sets check_qualifier again from what is left of the run
segment_turnRecheck(f, i, v) ==
    [push(f, match_segment(f.index, f.next_descs[i].r, v), "Right", "None") EXCEPT
        !.index = @ + 1,
        !.next_descs = IF f.next_descs[i].r.max_reps = 1 THEN remove(@, i) ELSE @,
        !.check_qualifier = IF f.next_descs[i].r.max_reps = 1
                            THEN Len(f.next_descs) - 1 > 1
                            ELSE Len(f.next_descs) > 1]

\* a turn that takes the description out of the run only when the raw segment
\* was matched without error
segment_turnKeepOnError(f, i, v) ==
    [push(f, match_segment(f.index, f.next_descs[i].r, v), "Right", "None") EXCEPT
        !.index = @ + 1,
        !.next_descs = IF /\ f.next_descs[i].r.max_reps = 1
                          /\ match_segment(f.index, f.next_descs[i].r, v).ok
                       THEN remove(@, i) ELSE @]

\* a turn that takes the description out of the run once max_reps raw
\* segments have been matched against it without error
segment_turnBounded(f, i, v) ==
    [push(f, match_segment(f.index, f.next_descs[i].r, v), "Right", "None") EXCEPT
        !.index = @ + 1,
        !.next_descs =
            IF Cardinality({k \in 1..Len(f.matches) :
                               /\ IsRight(f.matches[k])
                               /\ f.matches[k].r.counter = f.next_descs[i].r.counter})
                  + 1 >= f.next_descs[i].r.max_reps
            THEN remove(@, i) ELSE @]

\* Either::Right(desc): match_segment, index += 1, and the description
\* leaves the run when its max_reps is 1
segment_turn(f, i, v) ==
    [push(f, match_segment(f.index, f.next_descs[i].r, v), "Right", "None") EXCEPT
        !.index = @ + 1,
        !.next_descs = IF f.next_descs[i].r.max_reps = 1 THEN remove(@, i) ELSE @]

\* which description the raw segment was handed to match_segment with
routing(f, i, v) ==
    [desc |-> f.next_descs[i].r, segment |-> v, index |-> f.index,
     check_qualifier |-> f.check_qualifier]

MatchSegmentStep(m) ==
    [with_top(m, segment_turn(Top(m), next_match(m), Peek(m))) EXCEPT
        !.stack = popped(m),
        !.routed = Append(@, routing(Top(m), next_match(m), Peek(m)))]

\* Either::Left(desc): matching(index, &desc.segments, stack), v popped
EnterGroupStep(m) ==
    [m EXCEPT !.stack = popped(m),
              !.frames = Append(@, NewFrame(Top(m).index,
                                   Top(m).next_descs[next_match(m)].l.segments,
                                   Some(Top(m).next_descs[next_match(m)].l)))]

matched_Segmentgroup(desc, values) ==
    [counter |-> desc.counter, label |-> desc.label, st |-> desc.st,
     max_reps |-> desc.max_reps, name |-> desc.name, segments |-> values]

\* (index, Err(errors)) or (index, Ok(matches)) of the callee, taken by the
\* caller: index += next in both cases
return_to(caller, callee) ==
    IF callee.errors # <<>>
    THEN [caller EXCEPT !.index = @ + callee.index,
                        !.errors = @ \o callee.errors]
    ELSE [caller EXCEPT !.index = @ + callee.index,
                        !.matches = Append(@, Left(matched_Segmentgroup(
                                                 callee.group[1], callee.matches)))]

ReturnStep(m) ==
    [m EXCEPT !.frames = Append(SubSeq(@, 1, Len(@) - 2),
                                return_to(@[Len(@) - 1], @[Len(@)]))]

\* the end of the matching with an error for raw segments left on the stack
FinishStepTrailingError(m) ==
    [m EXCEPT !.st = "done",
              !.result = Some(IF m.stack = <<>> THEN
                                 IF Top(m).errors # <<>>
                                 THEN Err([pos |-> 0,
                                           message_errors |-> <<[pos |-> 0,
                                               service_segment_error |-> None,
                                               segment_errors |-> Top(m).errors]>>,
                                           service_segment_error |-> None])
                                 ELSE Ok([segments |-> Top(m).matches])
                              ELSE Err([pos |-> 0, message_errors |-> <<>>,
                                        service_segment_error |-> Some([code |-> 16])]))]

\* what matching returns at the top, wrapped by match_interchange
interchange_result(f) ==
    IF f.errors # <<>>
    THEN Err([pos |-> 0,
              message_errors |-> <<[pos |-> 0, service_segment_error |-> None,
                                    segment_errors |-> f.errors]>>,
              service_segment_error |-> None])
    ELSE Ok([segments |-> f.matches])

FinishStep(m) == [m EXCEPT !.st = "done", !.result = Some(interchange_result(Top(m)))]

MatchStep(m) ==
    CASE CanNextRun(m) -> NextRunStep(m)
      [] CanReturn(m) -> ReturnStep(m)
      [] CanFinish(m) -> FinishStep(m)
      [] CanPopNone(m) -> PopNoneStep(m)
      [] CanMiss(m) -> MissStep(m)
      [] CanSegment(m) -> MatchSegmentStep(m)
      [] CanGroup(m) -> EnterGroupStep(m)

RECURSIVE MatchRun(_)
MatchRun(m) == IF m.st # "matching" THEN m ELSE MatchRun(MatchStep(m))

match_interchange(desc, value) == MatchRun(MatchStart(desc, value)).result[1]

Error_Parse == [error |-> "Parse"]
Error_Mig(e) == [error |-> "Mig", mig |-> e]

decode_parsed(knowns, interchange) ==
    LET mig(r) == IF r.ok THEN r ELSE Err(Error_Mig(r.e))
    IN  IF interchange.ok THEN mig(match_interchange(knowns[1], interchange))
        ELSE Err(Error_Parse)

decode(knowns, input) == decode_parsed(knowns, parse(input))

-----------------------------------------------------------------------------
(* Specification of decode: parse, then match_interchange, on interchange  *)
(* bodies of at most MaxSegs segments and on complete interchanges, against *)
(* a description without segment groups, one with a qualified run, a       *)
(* repeatable segment and a segment group, and one with nested groups.     *)

\* a segment of one mandatory data element
plain(counter, tag, max_reps) ==
    desc_Segment(counter, tag, "M", max_reps, <<Right(an3(<<>>, "M", Usage_Text))>>)

\* RFF with the composite C506: a static reference qualifier and a reference
RFF(counter, code) ==
    desc_Segment(counter, <<"R", "F", "F">>, "M", 1,
        <<Left(desc_Composite("M",
            <<an3(<<"R", "e", "f", "e", "r", "e", "n", "c", "e", " ", "q", "u", "a", "l", "i", "f", "i", "e", "r">>, "M", Usage_Static(Choice(code))),
              an3(<<"R", "e", "f", "e", "r", "e", "n", "c", "e", " ", "n", "u", "m", "b", "e", "r">>, "O", Usage_Text)>>))>>)

\* UNB, UNH, BGM, UNT, UNZ: one description per counter, no segment group
D_flat ==
    desc_Interchange(
        plain(<<"1">>, <<"U", "N", "B">>, 1),
        plain(<<"2">>, <<"U", "N", "H">>, 1),
        <<Right(desc_Segment(<<"3">>, <<"B", "G", "M">>, "M", 1,
                    <<Right(an3(<<>>, "M", Usage_Text)),
                      Right(an3(<<>>, "M", Usage_Text))>>))>>,
        plain(<<"4">>, <<"U", "N", "T">>, 1),
        plain(<<"5">>, <<"U", "N", "Z">>, 1))

\* BGM, the run RFF+ACE / RFF+AGO, a repeatable DTM of exactly three
\* characters and the group NAD, CTA
D_rich ==
    desc_Interchange(
        plain(<<"1">>, <<"U", "N", "B">>, 1),
        plain(<<"2">>, <<"U", "N", "H">>, 1),
        <<Right(plain(<<"3">>, <<"B", "G", "M">>, 1)),
          Right(RFF(<<"4">>, <<"A", "C", "E">>)),
          Right(RFF(<<"4">>, <<"A", "G", "O">>)),
          Right(desc_Segment(<<"5">>, <<"D", "T", "M">>, "M", 2,
                    <<Right(desc_DataElement(<<>>, "M", Format("Numeric", "Exactly"),
                                             3, Usage_Text))>>)),
          Left(desc_Segmentgroup(<<"6">>, "O", 2,
                   <<Right(plain(<<"7">>, <<"N", "A", "D">>, 1)),
                     Right(plain(<<"8">>, <<"C", "T", "A">>, 1))>>))>>,
        plain(<<"9">>, <<"U", "N", "T">>, 1),
        plain(<<"1", "0">>, <<"U", "N", "Z">>, 1))

\* a segment group inside a segment group: NAD, then the group CTA, COM
D_nested ==
    desc_Interchange(
        plain(<<"1">>, <<"U", "N", "B">>, 1),
        plain(<<"2">>, <<"U", "N", "H">>, 1),
        <<Left(desc_Segmentgroup(<<"3">>, "O", 2,
                   <<Right(plain(<<"4">>, <<"N", "A", "D">>, 1)),
                     Left(desc_Segmentgroup(<<"5">>, "O", 2,
                              <<Right(plain(<<"6">>, <<"C", "T", "A">>, 1)),
                                Right(plain(<<"7">>, <<"C", "O", "M">>, 2))>>))>>))>>,
        plain(<<"8">>, <<"U", "N", "T">>, 1),
        plain(<<"9">>, <<"U", "N", "Z">>, 1))

NestedSegmentTexts ==
    {<<"N", "A", "D", "+", "M", "S", "'">>, <<"C", "T", "A", "+", "I", "C", "'">>,
     <<"C", "O", "M", "+", "1", "'">>, <<"C", "O", "M", "+", "'">>,
     <<"U", "N", "T", "+", "3", "'">>}

\* the advice that declares the default service characters
DefaultAdvice == <<"U", "N", "A", ":", "+", ".", "?", " ", "'">>

FlatSegmentTexts ==
    {<<"U", "N", "B", "+", "R", "'">>,
     <<"U", "N", "H", "+", "1", "'">>,
     <<"U", "N", "H", "+", "1", "'", "\n">>,
     <<"B", "G", "M", "+", "3", "+", "X", "'">>,
     <<"B", "G", "M", "+", "+", "X", "'">>,
     <<"B", "G", "M", "+", "3", "+", "X", "+", "Y", "'">>,
     <<"U", "N", "T", "+", "3", "'">>,
     <<"U", "N", "Z", "+", "1", "'">>,
     <<"X", "X", "X", "+", "1", "'">>,
     <<"U", "N", "A", "+", "A", "+", "A", "+", "A", "'">>,
     <<"U", "N", "A", "+", "1", "'">>}

RichSegmentTexts ==
    {<<"U", "N", "B", "+", "R", "'">>,
     <<"U", "N", "H", "+", "1", "'">>,
     <<"B", "G", "M", "+", "3", "'">>,
     <<"R", "F", "F", "+", "A", "C", "E", ":", "O", "1", "'">>,
     <<"R", "F", "F", "+", "A", "G", "O", ":", "9", "9", "'">>,
     <<"R", "F", "F", "+", "Z", "Z", "Z", ":", "1", "'">>,
     <<"D", "T", "M", "+", "1", "3", "7", "'">>,
     <<"N", "A", "D", "+", "M", "S", "'">>,
     <<"C", "T", "A", "+", "I", "C", "'">>,
     <<"D", "T", "M", "+", "'">>,
     <<"C", "T", "A", "+", "I", "C", "X", "X", "'">>,
     <<"U", "N", "T", "+", "3", "'">>,
     <<"U", "N", "Z", "+", "1", "'">>}

\* complete interchanges for D_rich: a DTM, the group NAD, CTA or a CTA on
\* its own, and the service segments, with and without invalid elements
RichInterchanges ==
    {<<"U", "N", "B", "+", "R", "'">> \o <<"U", "N", "H", "+", "1", "'">> \o m \o n \o c \o t \o <<"U", "N", "Z", "+", "1", "'">> :
        m \in {<<"D", "T", "M", "+", "1", "3", "7", "'">>, <<"D", "T", "M", "+", "'">>,
               <<"D", "T", "M", "+", "1", "'">>, <<"D", "T", "M", "+", "1", ":", "2", "'">>},
        n \in {<<>>, <<"N", "A", "D", "+", "M", "S", "'">>},
        c \in {<<"C", "T", "A", "+", "I", "C", "'">>, <<"C", "T", "A", "+", "I", "C", "X", "X", "'">>},
        t \in {<<"U", "N", "T", "+", "3", "'">>, <<"U", "N", "T", "+", "'">>}}

\* complete interchanges for D_flat
FlatInterchanges ==
    {u \o h \o b \o <<"U", "N", "T", "+", "3", "'">> \o z :
        u \in {<<"U", "N", "B", "+", "R", "'">>, <<"U", "N", "B", "+", "A", "B", "'">>},
        h \in {<<"U", "N", "H", "+", "1", "'">>, <<"U", "N", "H", "+", "1", "'", "\n">>},
        b \in {<<"B", "G", "M", "+", "3", "+", "X", "'">>, <<"B", "G", "M", "+", "3", "1", "3", "+", "X", "'">>, <<"B", "G", "M", "+", "+", "X", "'">>, <<"B", "G", "M", "+", "3", "+", "X", "+", "Y", "'">>},
        z \in {<<"U", "N", "Z", "+", "1", "'">>, <<"U", "N", "Z", "+", "1", "'", "\n">>}}

\* the concatenations of at most n texts of S
RECURSIVE Bodies(_, _)
Bodies(S, n) ==
    IF n = 0 THEN {<<>>}
    ELSE {b \o x : b \in Bodies(S, n - 1), x \in S \cup {<<>>}}

DecodeInit ==
    /\ lx = LexStart
    /\ sg = Idle
    /\ mt = MatchIdle
    /\ \/ /\ known = <<D_flat>>
          /\ text \in Bodies(FlatSegmentTexts, MaxSegs)
                        \cup FlatInterchanges
                        \cup {DefaultAdvice \o b : b \in FlatInterchanges}
       \/ /\ known = <<D_rich>>
          /\ text \in Bodies(RichSegmentTexts, MaxSegs)
                        \cup RichInterchanges
                        \cup {DefaultAdvice \o b : b \in Bodies(RichSegmentTexts, 1)}
       \/ /\ known = <<D_nested>>
          /\ text \in Bodies(NestedSegmentTexts, MaxSegs)

\* decode: parse failed, Error::Parse
ParseFailed ==
    /\ lx.st = "err"
    /\ mt.st = "idle"
    /\ mt' = [mt EXCEPT !.st = "parse_error"]
    /\ UNCHANGED <<text, lx, sg, known>>

\* decode: match_interchange(&known[0], interchange)
StartMatching ==
    /\ lx.st = "ok"
    /\ mt.st = "idle"
    /\ mt' = MatchStart(known[1], [una |-> lx.una, segments |-> lx.segments])
    /\ UNCHANGED <<text, lx, sg, known>>

NextRun ==
    /\ mt.st = "matching" /\ CanNextRun(mt)
    /\ mt' = NextRunStep(mt)
    /\ UNCHANGED <<text, lx, sg, known>>

PopNone ==
    /\ mt.st = "matching" /\ CanPopNone(mt)
    /\ mt' = PopNoneStep(mt)
    /\ UNCHANGED <<text, lx, sg, known>>

Miss ==
    /\ mt.st = "matching" /\ CanMiss(mt)
    /\ mt' = MissStep(mt)
    /\ UNCHANGED <<text, lx, sg, known>>

MatchRawSegment ==
    /\ mt.st = "matching" /\ CanSegment(mt)
    /\ mt' = MatchSegmentStep(mt)
    /\ UNCHANGED <<text, lx, sg, known>>

EnterGroup ==
    /\ mt.st = "matching" /\ CanGroup(mt)
    /\ mt' = EnterGroupStep(mt)
    /\ UNCHANGED <<text, lx, sg, known>>

ReturnFromGroup ==
    /\ mt.st = "matching" /\ CanReturn(mt)
    /\ mt' = ReturnStep(mt)
    /\ UNCHANGED <<text, lx, sg, known>>

Finish ==
    /\ mt.st = "matching" /\ CanFinish(mt)
    /\ mt' = FinishStep(mt)
    /\ UNCHANGED <<text, lx, sg, known>>

DecodeNext ==
    \/ ParseUNA \/ ParseSegment \/ ParseEof \/ ParseFailed \/ StartMatching
    \/ NextRun \/ PopNone \/ Miss \/ MatchRawSegment \/ EnterGroup
    \/ ReturnFromGroup \/ Finish

SpecDecode == DecodeInit /\ [][DecodeNext]_vars

\* the steps of match_interchange
MatchNext ==
    \/ NextRun \/ PopNone \/ Miss \/ MatchRawSegment \/ EnterGroup
    \/ ReturnFromGroup \/ Finish

\* the inputs of the runs that are followed to their end
RunsInit ==
    /\ lx = LexStart
    /\ sg = Idle
    /\ mt = MatchIdle
    /\ \/ /\ known = <<D_flat>>
          /\ text \in FlatInterchanges
       \/ /\ known = <<D_rich>>
          /\ text \in RichInterchanges
       \/ /\ known = <<D_nested>>
          /\ text \in Bodies(NestedSegmentTexts, MaxSegs)
                        \cup {DefaultAdvice \o b : b \in Bodies(NestedSegmentTexts, 1)}
                        \cup {<<"N", "A", "D">>}

\* match_interchange is one sequential call that runs from its first
\* statement to its return: a step of it that can be taken is taken
SpecDecodeRuns == RunsInit /\ [][DecodeNext]_vars /\ WF_vars(MatchNext)

-----------------------------------------------------------------------------
(* What the lexer's claims are stated with.  None of it is used by the     *)
(* model of the code above.                                                *)

RECURSIVE Flatten(_)
Flatten(ss) == IF ss = <<>> THEN <<>> ELSE Head(ss) \o Flatten(Tail(ss))

\* the data elements of a slot, of a segment (tag first) and of a list of
\* segments, in depth-first order
SlotElements(e) == IF IsLeft(e) THEN e.l.elements ELSE <<e.r>>

SegmentDataElements(seg) ==
    <<seg.tag>> \o Flatten([k \in 1..Len(seg.elements) |-> SlotElements(seg.elements[k])])

AllDataElements(segs) ==
    Flatten([k \in 1..Len(segs) |-> SegmentDataElements(segs[k])])

AllSlots(segs) == Flatten([k \in 1..Len(segs) |-> segs[k].elements])

\* the offset of the character at a source position of t
OffsetOf(t, pos) == CHOOSE i \in 1..(Len(t) + 1) : PosAt(t, i) = pos

\* the characters of t a data element was read from
RawOf(t, d) == SubSeq(t, OffsetOf(t, d.start), OffsetOf(t, d.end) - 1)

DeclaredSeparators(una) == {una.component_sep, una.element_sep, una.segment_sep}

\* s without the escape characters that serve as escapes: esc y gives y
RECURSIVE Unescape(_, _)
Unescape(esc, s) ==
    IF s = <<>> THEN <<>>
    ELSE IF s[1] = esc /\ Len(s) >= 2
         THEN <<s[2]>> \o Unescape(esc, SubSeq(s, 3, Len(s)))
         ELSE <<s[1]>> \o Unescape(esc, Tail(s))

\* s is made of plain characters (no declared separator, not the declared
\* escape) and of pairs of the declared escape and any character
RECURSIVE IsValueText(_, _)
IsValueText(una, s) ==
    \/ s = <<>>
    \/ /\ s[1] = una.escape
       /\ Len(s) >= 2
       /\ IsValueText(una, SubSeq(s, 3, Len(s)))
    \/ /\ s[1] # una.escape
       /\ s[1] \notin DeclaredSeparators(una)
       /\ IsValueText(una, Tail(s))

\* how many times c stands in s outside an escape pair
RECURSIVE CountUnescaped(_, _, _)
CountUnescaped(esc, c, s) ==
    IF s = <<>> THEN 0
    ELSE IF s[1] = esc THEN CountUnescaped(esc, c, SubSeq(s, 3, Len(s)))
    ELSE (IF s[1] = c THEN 1 ELSE 0) + CountUnescaped(esc, c, Tail(s))

LexedSegments == IF lx.st \in {"segments", "ok"} THEN lx.segments ELSE <<>>

\* C1: in every lexed data element the value is the raw text of the element
\* with each escape pair (escape, y) replaced by y.
C1_EscapeRemoved ==
    \A k \in 1..Len(AllDataElements(LexedSegments)) :
        LET d == AllDataElements(LexedSegments)[k] IN
        d.value = Unescape(lx.una.escape, RawOf(text, d))

\* the text of the advice: UNA and six more characters
HasAdvice(t) == Len(t) >= 9 /\ SubSeq(t, 1, 3) = <<"U", "N", "A">>

\* C3: the UNA resolver never fails; on a text that begins with UNA and six
\* more characters it returns those six, in the order component, element,
\* decimal, escape, reserved, segment, and reads nine characters; on every
\* other text it returns the defaults and reads nothing.
C3_UNAResolver ==
    [][lx.st = "una" =>
         /\ lx'.st = "segments"
         /\ IF HasAdvice(text)
            THEN /\ lx'.i = 10
                 /\ lx'.una = [component_sep |-> text[4], element_sep |-> text[5],
                               decimal_char |-> text[6], escape |-> text[7],
                               reserved |-> text[8], segment_sep |-> text[9]]
            ELSE /\ lx'.i = 1
                 /\ lx'.una = [component_sep |-> ":", element_sep |-> "+",
                               decimal_char |-> ".", escape |-> "?",
                               reserved |-> " ", segment_sep |-> "'"]]_vars

\* C3, witness: UNA followed by fewer than six characters was resolved to
\* the defaults with nothing read.
C3_Witness ==
    /\ Len(text) \in 4..8
    /\ SubSeq(text, 1, 3) = <<"U", "N", "A">>
    /\ lx.st = "segments"
    /\ lx.i = 1
    /\ lx.una = UNA_default

SlotRaw(t, e) ==
    LET ds == SlotElements(e) IN
    SubSeq(t, OffsetOf(t, ds[1].start), OffsetOf(t, ds[Len(ds)].end) - 1)

\* C5: a lexed slot reaches up to an element or segment separator; it is a
\* composite iff its text holds an unescaped component separator, and a
\* composite whose text holds k of them has k + 1 data elements.
C5_CompositeArity ==
    \A n \in 1..Len(AllSlots(LexedSegments)) :
        LET e   == AllSlots(LexedSegments)[n]
            ds  == SlotElements(e)
            k   == CountUnescaped(lx.una.escape, lx.una.component_sep, SlotRaw(text, e))
            nxt == OffsetOf(text, ds[Len(ds)].end)
        IN  /\ nxt <= Len(text)
            /\ text[nxt] \in {lx.una.element_sep, lx.una.segment_sep}
            /\ IsLeft(e) <=> k >= 1
            /\ IsLeft(e) => Len(e.l.elements) = k + 1 /\ Len(e.l.elements) >= 2

\* C5, witness: a composite of three data elements whose middle one is
\* empty and whose last one is not.
C5_Witness ==
    /\ lx.st = "ok"
    /\ \E n \in 1..Len(AllSlots(lx.segments)) :
           LET e == AllSlots(lx.segments)[n] IN
           /\ IsLeft(e)
           /\ Len(e.l.elements) = 3
           /\ e.l.elements[2].value = <<>>
           /\ e.l.elements[3].value # <<>>

\* a segment written back: tag, element separator, the slots joined by the
\* element separator (the values of a composite joined by the component
\* separator), segment separator
Unlex(una, seg) ==
    LET slot(e) == Join([k \in 1..Len(SlotElements(e)) |-> SlotElements(e)[k].value],
                        una.component_sep)
    IN  seg.tag.value \o <<una.element_sep>>
          \o Join([k \in 1..Len(seg.elements) |-> slot(seg.elements[k])], una.element_sep)
          \o <<una.segment_sep>>

RECURSIVE SkipWhitespace(_, _)
SkipWhitespace(t, i) ==
    IF i <= Len(t) /\ t[i] \in {" ", "\n"} THEN SkipWhitespace(t, i + 1) ELSE i

\* from offset i the text is exactly the segments written back, each
\* followed by whitespace only
RECURSIVE Covers(_, _, _, _)
Covers(una, t, i, segs) ==
    IF segs = <<>> THEN i = Len(t) + 1
    ELSE LET u == Unlex(una, Head(segs)) IN
         /\ SubSeq(t, i, i + Len(u) - 1) = u
         /\ Covers(una, t, SkipWhitespace(t, i + Len(u)), Tail(segs))

\* C6: every step of the lexer either ends the parse or reads on, so the
\* parse of a finite text ends, with an interchange or with an error; with
\* an interchange the whole text was read and is, after the UNA advice,
\* exactly the segments of the interchange written back, each complete and
\* followed by whitespace only; with an error there is no interchange.
C6_LexerTotal ==
    /\ [](lx.st = "ok" =>
            /\ lx.i = Len(text) + 1
            /\ Covers(lx.una, text, IF HasAdvice(text) THEN 10 ELSE 1, lx.segments))
    /\ [](lx.st = "err" => lx.segments = <<>>)
    /\ [][lx.st = "segments" =>
            \/ lx'.st \in {"ok", "err"}
            \/ lx'.st = "segments" /\ lx'.i > lx.i]_vars

\* C6, witness: an error on a text that begins with a complete segment and
\* ends inside the next one.
C6_Witness ==
    /\ lx.st = "err"
    /\ Segment_parser(lx.una, text, lx.i).ok = FALSE
    /\ lx.i > 1
    /\ ~HasAdvice(text)


-----------------------------------------------------------------------------
(* What the matcher's claims are stated with *)

\* the position an entry of SegmentError.errors carries
ErrorPos(e) == IF IsLeft(e) THEN e.l.pos ELSE e.r.pos

\* the entries of a sequence of errors that carry position p
ErrorsAt(errors, p) == {k \in 1..Len(errors) : ErrorPos(errors[k]) = p}

\* C10: check_st returns the missing error (code 13) for an empty input under
\* a required status (M or R), the invalid-value error (code 12) for a
\* non-empty input under N, and the input itself in every other case; applied
\* to its own successful output it returns that output again.  match_segment
\* on a raw segment with an empty bare value where the description has a bare
\* required data element (as BGM++X' against two mandatory slots) returns a
\* SegmentError that holds, for that position (0-based), exactly one error: a
\* DataElementError with code 13.
C10_CheckSt ==
    /\ sg.op = "check_st" =>
          /\ (sg.value.value = <<>> /\ sg.desc.st \in {"M", "R"})
                => sg.out = Err([code |-> 13])
          /\ (sg.value.value # <<>> /\ sg.desc.st = "N")
                => sg.out = Err([code |-> 12])
          /\ (~(sg.value.value = <<>> /\ sg.desc.st \in {"M", "R"})
                /\ ~(sg.value.value # <<>> /\ sg.desc.st = "N"))
                => sg.out = Ok(sg.value.value)
          /\ sg.out.ok => check_st(sg.desc.st, sg.out.v) = sg.out
    /\ sg.op = "match_segment" =>
          \A p \in 1..Len(sg.desc.elements) :
             (/\ p <= Len(sg.value.elements)
              /\ IsRight(sg.desc.elements[p])
              /\ sg.desc.elements[p].r.st \in {"M", "R"}
              /\ IsRight(sg.value.elements[p])
              /\ sg.value.elements[p].r.value = <<>>)
             => /\ ~sg.out.ok
                /\ Cardinality(ErrorsAt(sg.out.e.errors, p - 1)) = 1
                /\ \A k \in ErrorsAt(sg.out.e.errors, p - 1) :
                      sg.out.e.errors[k] =
                          Right([pos |-> p - 1, syntax_error |-> [code |-> 13]])

\* BGM++A' against a BGM of two mandatory data elements: one error, code 13,
\* at position 0
C10_Witness ==
    /\ sg.op = "match_segment"
    /\ text = <<"B", "G", "M", "+", "+", "A", "'">>
    /\ sg.desc.elements = <<Right(an("M", "AtMost", 2)), Right(an("M", "AtMost", 2))>>
    /\ sg.out = Err([pos |-> sg.pos, syntax_error |-> None,
                     errors |-> <<Right([pos |-> 0, syntax_error |-> [code |-> 13]])>>])

\* the descriptions of an interchange in the order UNB, UNH, message body,
\* UNT, UNZ
InOrder(desc) ==
    <<Right(desc.unb), Right(desc.message.unh)>>
        \o desc.message.segments
        \o <<Right(desc.message.unt), Right(desc.unz)>>

\* the segment descriptions of status M or R at the top of a description
RequiredSegments(desc) ==
    {k \in 1..Len(InOrder(desc)) :
        IsRight(InOrder(desc)[k]) /\ is_required(InOrder(desc)[k].r.st)}

\* no raw segment was handed to match_segment with the description d
Unmatched(d) == \A k \in 1..Len(mt.routed) : mt.routed[k].desc # d

\* the segment errors of an InterchangeError
SegmentErrors(e) == e.message_errors[1].segment_errors

\* C2: when match_interchange has returned and a segment description of status
\* M or R was matched by no raw segment, the result is an InterchangeError
\* that reports a missing segment (syntax error code 13).
C2_MissingSegmentReported ==
    mt.st = "done" =>
        \A k \in RequiredSegments(known[1]) :
            Unmatched(InOrder(known[1])[k].r)
            => /\ ~mt.result[1].ok
               /\ \E j \in 1..Len(SegmentErrors(mt.result[1].e)) :
                     SegmentErrors(mt.result[1].e)[j].syntax_error
                         = Some(SyntaxError_missing)

\* the static qualifier value of a segment description, as an Option
StaticValue(d) ==
    IF qualifier_usage(first_data_element(d.elements)) # None
       /\ qualifier_usage(first_data_element(d.elements))[1].type = "Static"
    THEN Some(qualifier_usage(first_data_element(d.elements))[1].value.value)
    ELSE None

\* the value of the first data element of a raw segment, as an Option
FirstValue(v) ==
    [k \in 1..Len(first_data_element(v.elements)) |->
        first_data_element(v.elements)[k].value]

\* the run of f is being walked with the qualifier check, and what is left of
\* it are segment descriptions with the tag of v and static qualifiers that
\* differ from one another
QualifiedRun(f, v) ==
    /\ f.in_run /\ f.check_qualifier
    /\ \A i \in 1..Len(f.next_descs) :
          /\ IsRight(f.next_descs[i])
          /\ f.next_descs[i].r.tag = v.tag.value
          /\ StaticValue(f.next_descs[i].r) # None
    /\ \A i, j \in 1..Len(f.next_descs) :
          i # j => StaticValue(f.next_descs[i].r) # StaticValue(f.next_descs[j].r)

\* C7: while a run of segment descriptions with the same tag and counter and
\* different static qualifier values is walked, the raw segment on top of the
\* stack, when it has that tag, is handed to match_segment with the
\* description whose static value is the value of its first data element (the
\* first component of a composite), and with no other description of the run,
\* in whichever order the raw segments arrive.
C7_QualifierRouting ==
    [][(mt.st = "matching" /\ mt.stack # <<>> /\ QualifiedRun(Top(mt), Peek(mt)))
       => \A i \in 1..Len(Top(mt).next_descs) :
             IF StaticValue(Top(mt).next_descs[i].r) = FirstValue(Peek(mt))
             THEN /\ Len(mt'.routed) = Len(mt.routed) + 1
                  /\ mt'.routed[Len(mt'.routed)].desc = Top(mt).next_descs[i].r
                  /\ mt'.routed[Len(mt'.routed)].segment = Peek(mt)
             ELSE \/ mt'.routed = mt.routed
                  \/ mt'.routed[Len(mt'.routed)].desc # Top(mt).next_descs[i].r]_vars

\* RFF+AGO before RFF+ACE, against the run RFF-ACE, RFF-AGO: both are matched,
\* each with the description of its qualifier
C7_Witness ==
    /\ mt.st = "done"
    /\ mt.result[1].ok
    /\ Len(mt.routed) = 2
    /\ FirstValue(mt.routed[1].segment) = Some(<<"A", "G", "O">>)
    /\ StaticValue(mt.routed[1].desc) = Some(<<"A", "G", "O">>)
    /\ FirstValue(mt.routed[2].segment) = Some(<<"A", "C", "E">>)
    /\ StaticValue(mt.routed[2].desc) = Some(<<"A", "C", "E">>)

\* no segment group at the top of a description, no counter twice
Flat(descs) ==
    /\ \A k \in 1..Len(descs) : IsRight(descs[k])
    /\ \A j, k \in 1..Len(descs) : j # k => get_counter(descs[j]) # get_counter(descs[k])

\* the raw segments are as many as the descriptions, carry their tags in
\* their order, and each satisfies its description
Satisfies(descs, segments) ==
    /\ Len(segments) = Len(descs)
    /\ \A k \in 1..Len(descs) :
          /\ segments[k].tag.value = descs[k].r.tag
          /\ match_segment(k - 1, descs[k].r, segments[k]).ok

\* C8: for a description without segment groups and with one description per
\* counter (UNB, UNH, BGM, UNT, UNZ) and a raw interchange of as many segments
\* with those tags in that order, each satisfying its description,
\* match_interchange returns Ok with exactly that many matched segments, in
\* that order: the k-th is the match of the k-th raw segment with the k-th
\* description.
C8_FlatInterchange ==
    (/\ mt.st = "done"
     /\ Len(InOrder(known[1])) = 5
     /\ Flat(InOrder(known[1]))
     /\ Satisfies(InOrder(known[1]), lx.segments))
    => /\ mt.result[1].ok
       /\ Len(mt.result[1].v.segments) = 5
       /\ \A k \in 1..5 :
             /\ IsRight(mt.result[1].v.segments[k])
             /\ mt.result[1].v.segments[k].r.tag = InOrder(known[1])[k].r.tag
             /\ mt.result[1].v.segments[k].r.index = k - 1
             /\ mt.result[1].v.segments[k].r
                   = match_segment(k - 1, InOrder(known[1])[k].r, lx.segments[k]).v

\* UNB+R'UNH+1'BGM+3+X'UNT+3'UNZ+1' against D_flat: five matched segments
C8_Witness ==
    /\ mt.st = "done"
    /\ known = <<D_flat>>
    /\ Satisfies(InOrder(D_flat), lx.segments)
    /\ ~HasAdvice(text)
    /\ mt.result[1].ok
    /\ [k \in 1..5 |-> mt.result[1].v.segments[k].r.tag]
          = <<<<"U", "N", "B">>, <<"U", "N", "H">>, <<"B", "G", "M">>,
              <<"U", "N", "T">>, <<"U", "N", "Z">>>>

\* decode has returned
Decoded == mt.st \in {"done", "parse_error"}

\* what decode has returned
DecodeResult ==
    IF mt.st = "parse_error" THEN Err(Error_Parse)
    ELSE IF mt.result[1].ok THEN mt.result[1]
    ELSE Err(Error_Mig(mt.result[1].e))

\* a position on the first line, taken back by the length of the advice
Unshifted(pos) ==
    IF pos.line = 1 THEN [pos EXCEPT !.column = @ - Len(DefaultAdvice)] ELSE pos

UnshiftedData(d) == [d EXCEPT !.start = Unshifted(@), !.end = Unshifted(@)]

UnshiftedSlot(e) ==
    IF IsLeft(e)
    THEN Left([elements |-> [k \in 1..Len(e.l.elements) |-> UnshiftedData(e.l.elements[k])]])
    ELSE Right(UnshiftedData(e.r))

UnshiftedSegments(segments) ==
    [n \in 1..Len(segments) |->
        [tag |-> UnshiftedData(segments[n].tag),
         elements |-> [k \in 1..Len(segments[n].elements) |->
                          UnshiftedSlot(segments[n].elements[k])]]]

\* the parse p of the advice followed by the text, against the parse of the
\* text: the same raw segments, and the default UNA
SameParse(p) ==
    /\ p.ok = (lx.st = "ok")
    /\ p.segments = lx.segments
    /\ p.ok => p.una = UNA_default /\ lx.una = UNA_default

SameParseUnshifted(p) ==
    /\ p.ok = (lx.st = "ok")
    /\ UnshiftedSegments(p.segments) = lx.segments
    /\ p.ok => p.una = UNA_default /\ lx.una = UNA_default

\* C9 as stated: for every text B, UNA:+.? ' followed by B parses into the
\* same raw segments as B and decodes to the same result, with the default UNA.
C9_SameWithAdvice ==
    (Decoded /\ SubSeq(text, 1, Len(DefaultAdvice)) # DefaultAdvice)
    => /\ SameParse(parse(DefaultAdvice \o text))
       /\ decode(known, DefaultAdvice \o text) = DecodeResult

\* C9: for every text B that does not begin with UNA and six more characters,
\* UNA:+.? ' followed by B parses into the raw segments of B with every
\* position on the first line nine columns further to the right, decodes to
\* the same result as B, and the UNA of both is the default UNA.
C9_SameUpToPositions ==
    (Decoded /\ ~HasAdvice(text))
    => /\ SameParseUnshifted(parse(DefaultAdvice \o text))
       /\ decode(known, DefaultAdvice \o text) = DecodeResult

\* a complete interchange on two lines has been matched; with the advice in
\* front it decodes to the same tree from raw segments at other positions
C9_Witness ==
    /\ mt.st = "done"
    /\ mt.result[1].ok
    /\ ~HasAdvice(text)
    /\ Len(lx.segments) = 5
    /\ lx.segments[5].tag.start.line = 2
    /\ parse(DefaultAdvice \o text).segments # lx.segments
    /\ decode(known, DefaultAdvice \o text) = Ok(mt.result[1].v)


-----------------------------------------------------------------------------
(* Length checking                                                          *)

\* the outcome of match_data_element that the length rule asks for, for a
\* value of k characters and a declared length n
LengthOutcome(pos, desc, value, k) ==
    LET n == desc.length
        accepted == Ok([index |-> pos, description |-> desc,
                        value |-> Some(Matched_Text(value))])
        too_short == Err([pos |-> pos, syntax_error |-> [code |-> 40]])
        too_long == Err([pos |-> pos, syntax_error |-> [code |-> 39]])
    IN  CASE desc.format.size = "Exactly" ->
               IF k < n THEN too_short ELSE IF k > n THEN too_long ELSE accepted
          [] desc.format.size = "AtMost" ->
               IF k > n THEN too_long ELSE accepted

\* the same description with another character class
WithClass(desc, class) == [desc EXCEPT !.format.class = class]

\* C11: for every non-empty value of k characters that passes the status
\* check, with declared length n and any of the three formats, Exactly
\* accepts iff k = n (code 40 when k < n, code 39 when k > n), AtMost accepts
\* iff k <= n (code 39 otherwise), and the character class of the format
\* never changes the outcome.
C11_LengthChecking ==
    (/\ sg.op = "match_data_element"
     /\ sg.value.value # <<>>
     /\ check_st(sg.desc.st, sg.value.value).ok)
    => /\ sg.out = LengthOutcome(sg.pos, sg.desc, sg.value.value, Len(sg.value.value))
       /\ \A class \in {"Alphanumeric", "Alpha", "Numeric"} :
             match_data_element(sg.pos, WithClass(sg.desc, class), sg.value).ok
                = sg.out.ok

\* the value é (one character, two bytes) against a mandatory an1 of exactly
\* one character: rejected as too long
C11_Witness ==
    /\ sg.op = "match_data_element"
    /\ sg.value.value = <<"é">>
    /\ sg.desc.st = "M" /\ sg.desc.length = 1 /\ sg.desc.format.size = "Exactly"
    /\ sg.out = Err([pos |-> sg.pos, syntax_error |-> [code |-> 39]])

\* the same rule with k counted in bytes, as String::len() counts
C11_LengthInBytes ==
    (/\ sg.op = "match_data_element"
     /\ sg.value.value # <<>>
     /\ check_st(sg.desc.st, sg.value.value).ok)
    => sg.out = LengthOutcome(sg.pos, sg.desc, sg.value.value, len(sg.value.value))

-----------------------------------------------------------------------------
(* Errors of a segment                                                      *)

\* the slot of a description is invalid on its own: matched alone, with its
\* value (or with no value when the raw segment has none for it), it fails
SlotInvalid(desc, d, values, p) ==
    ~match_segment(0, [desc EXCEPT !.elements = <<d>>],
                   [elements |-> IF p <= Len(values) THEN <<values[p]>> ELSE <<>>]).ok

InvalidSlots(desc, values) ==
    {p \in 1..Len(desc.elements) : SlotInvalid(desc, desc.elements[p], values, p)}

\* C12: when a raw segment is matched against a description, match_segment
\* returns a SegmentError with one entry per invalid slot of the description
\* (as many entries as invalid slots, in the order of the slots, never only
\* the first), each carrying the zero-based index of its slot; so when every
\* slot is invalid there are as many entries as slots, and a violation in
\* one slot does not stop the checking of the slots after it.
C12_ErrorPerSlot ==
    sg.op = "match_segment" =>
        LET invalid == InvalidSlots(sg.desc, sg.value.elements)
        IN  /\ invalid = {} => (sg.out.ok \/ sg.out.e.errors = <<>>)
            /\ invalid # {} =>
                 /\ ~sg.out.ok
                 /\ Len(sg.out.e.errors) = Cardinality(invalid)
                 /\ \A p \in invalid :
                       Cardinality(ErrorsAt(sg.out.e.errors, p - 1)) = 1
                 /\ \A j, k \in 1..Len(sg.out.e.errors) :
                       j < k => ErrorPos(sg.out.e.errors[j]) < ErrorPos(sg.out.e.errors[k])

\* BGM+AAA+AAA' against two mandatory an..2: both slots are too long, and the
\* SegmentError holds two errors, for the indexes 0 and 1
C12_Witness ==
    /\ sg.op = "match_segment"
    /\ text = <<"B", "G", "M", "+", "A", "A", "A", "+", "A", "A", "A", "'">>
    /\ sg.desc.elements = <<Right(an("M", "AtMost", 2)), Right(an("M", "AtMost", 2))>>
    /\ InvalidSlots(sg.desc, sg.value.elements) = {1, 2}
    /\ sg.out = Err([pos |-> sg.pos, syntax_error |-> None,
                     errors |-> <<Right([pos |-> 0, syntax_error |-> [code |-> 39]]),
                                  Right([pos |-> 1, syntax_error |-> [code |-> 39]])>>])

-----------------------------------------------------------------------------
(* Errors of a message                                                      *)

\* position p lies before position q in the text
Before(p, q) == p.line < q.line \/ (p.line = q.line /\ p.column < q.column)

\* the calls of match_segment so far that failed, in the order of the calls
RECURSIVE Failing(_)
Failing(routed) ==
    IF routed = <<>> THEN <<>>
    ELSE LET r == Head(routed)
         IN  (IF match_segment(r.index, r.desc, r.segment).ok THEN <<>>
              ELSE <<match_segment(r.index, r.desc, r.segment).e>>)
             \o Failing(Tail(routed))

\* the state of the matcher without what it has collected
Skeleton(m) ==
    [m EXCEPT !.frames = [k \in 1..Len(m.frames) |->
                             [m.frames[k] EXCEPT !.matches = <<>>, !.errors = <<>>]],
              !.result = None]

\* what holds of the errors in every state of the matcher
MessageErrors ==
    /\ \A j, k \in 1..Len(mt.routed) :
          j < k => Before(mt.routed[j].segment.tag.start, mt.routed[k].segment.tag.start)
    /\ mt.st = "matching" =>
          Skeleton(MatchStep(mt)) = Skeleton(MatchStep(Skeleton(mt)))
    /\ mt.st = "done" =>
          mt.result[1] =
             IF Failing(mt.routed) = <<>>
             THEN Ok([segments |-> Top(mt).matches])
             ELSE Err([pos |-> 0,
                       message_errors |-> <<[pos |-> 0,
                                             service_segment_error |-> None,
                                             segment_errors |-> Failing(mt.routed)]>>,
                       service_segment_error |-> None])

\* a raw segment handed to match_segment is taken from the stack, and the
\* matcher stays in the same run of the same call, with the same runs ahead,
\* whether the segment failed or not
GoesOnAfterSegment ==
    (mt.st = "matching" /\ CanSegment(mt)) =>
        /\ mt'.st = "matching"
        /\ mt'.stack = popped(mt)
        /\ Len(mt'.frames) = Len(mt.frames)
        /\ Top(mt').in_run
        /\ Top(mt').runs = Top(mt).runs
        /\ Len(Top(mt').matches) + Len(Top(mt').errors)
              = Len(Top(mt).matches) + Len(Top(mt).errors) + 1

\* C13: match_interchange returns an InterchangeError iff at least one raw
\* segment handed to match_segment failed; the error holds exactly one
\* MessageError, whose segment_errors are the SegmentErrors of the failing
\* segments, one each, in raw order, those from inside segment groups
\* included; otherwise the result is Ok.  A failing segment does not stop the
\* matching: the matcher goes on in the same run with the next raw segment,
\* and which step it takes does not depend on the matches and errors
\* collected so far.
C13_MessageErrors == []MessageErrors /\ [][GoesOnAfterSegment]_vars

\* UNB+R'UNH+1'DTM+'NAD+MS'CTA+ICXX'UNT+3'UNZ+1': DTM fails (code 13), CTA
\* fails inside the group (code 39), UNT and UNZ are matched after them, and
\* the error holds the two SegmentErrors in that order
C13_Witness ==
    /\ mt.st = "done"
    /\ known = <<D_rich>>
    /\ Len(mt.routed) = 6
    /\ ~mt.result[1].ok
    /\ Len(mt.result[1].e.message_errors) = 1
    /\ Len(mt.result[1].e.message_errors[1].segment_errors) = 2
    /\ mt.result[1].e.message_errors[1].segment_errors[1].errors
          = <<Right([pos |-> 0, syntax_error |-> [code |-> 13]])>>
    /\ mt.result[1].e.message_errors[1].segment_errors[2].errors
          = <<Right([pos |-> 0, syntax_error |-> [code |-> 39]])>>
    /\ mt.routed[4].desc.tag = <<"C", "T", "A">>
    /\ mt.routed[6].desc.tag = <<"U", "N", "Z">>
    /\ match_segment(mt.routed[6].index, mt.routed[6].desc, mt.routed[6].segment).ok

-----------------------------------------------------------------------------
(* Too many parts                                                           *)

\* the first n elements of a sequence
Take(s, n) == SubSeq(s, 1, n)

\* C14: when a raw segment has more element slots than its description
\* declares, match_segment returns a SegmentError whose syntax_error is
\* too_many_parts (code 16); the matching stops at the first excess slot: the
\* errors are those of the declared slots, as for the raw segment cut to the
\* declared slots, and no matched slot is returned.  With as many slots or
\* fewer, syntax_error is never set.
C14_TooManyParts ==
    sg.op = "match_segment" =>
        LET n == Len(sg.desc.elements)
            cut == match_segment(sg.pos, sg.desc,
                                 [sg.value EXCEPT !.elements = Take(@, n)])
        IN  /\ Len(sg.value.elements) > n =>
                 /\ ~sg.out.ok
                 /\ sg.out.e.pos = sg.pos
                 /\ sg.out.e.syntax_error = Some([code |-> 16])
                 /\ sg.out.e.errors = IF cut.ok THEN <<>> ELSE cut.e.errors
                 /\ DOMAIN sg.out.e = {"pos", "syntax_error", "errors"}
            /\ Len(sg.value.elements) <= n =>
                 (sg.out.ok \/ sg.out.e.syntax_error = None)

\* BGM+AAA+A' against one mandatory an..2: the error of slot 0 is kept, and
\* the second slot is one too many
C14_Witness ==
    /\ sg.op = "match_segment"
    /\ text = <<"B", "G", "M", "+", "A", "A", "A", "+", "A", "'">>
    /\ sg.desc.elements = <<Right(an("M", "AtMost", 2))>>
    /\ sg.out = Err([pos |-> sg.pos, syntax_error |-> Some([code |-> 16]),
                     errors |-> <<Right([pos |-> 0, syntax_error |-> [code |-> 39]])>>])

-----------------------------------------------------------------------------
(* Raw segments that no description takes                                   *)

\* the raw interchange without its last n segments
Truncated(segments, n) ==
    [una |-> lx.una, segments |-> SubSeq(segments, 1, Len(segments) - n)]

\* the raw segments that were taken from the stack for good
Consumed == Len(lx.segments) - Len(mt.stack)

\* a raw segment that no description of the current run matches goes back
\* onto the stack, and nothing is collected for it
MissLeavesAll ==
    (mt.st = "matching" /\ CanMiss(mt)) =>
        /\ mt'.stack = mt.stack
        /\ mt'.routed = mt.routed
        /\ Top(mt').errors = Top(mt).errors
        /\ Top(mt').matches = Top(mt).matches
        /\ Top(mt').index = Top(mt).index

\* C15: a raw segment that matches no description in the current run nor in
\* any later run stays unconsumed with every raw segment after it, and none
\* of them causes an error: at the end of the matching the stack holds the
\* unconsumed raw segments, the last one lowest, and the result is the
\* result of match_interchange for the interchange cut just before the first
\* of them.
C15_TrailingLeniency ==
    /\ [](mt.st = "done" =>
            /\ mt.stack = reverse(SubSeq(lx.segments, Consumed + 1, Len(lx.segments)))
            /\ mt.result[1]
                 = match_interchange(known[1], Truncated(lx.segments, Len(mt.stack))))
    /\ [][MissLeavesAll]_vars

\* UNB+R'XXX+1'UNH+1' against D_flat: XXX matches no description, XXX and UNH
\* stay on the stack, and the result is Ok with UNB only, as for UNB+R'
C15_Witness ==
    /\ mt.st = "done"
    /\ known = <<D_flat>>
    /\ Len(lx.segments) = 3
    /\ Len(mt.stack) = 2
    /\ mt.stack[2].tag.value = <<"X", "X", "X">>
    /\ mt.stack[1].tag.value = <<"U", "N", "H">>
    /\ mt.result[1].ok
    /\ Len(mt.result[1].v.segments) = 1

-----------------------------------------------------------------------------
(* The stored value of a data element                                       *)

\* C16 as stated: every data element that match_data_element accepts is
\* stored with the value Matched::Text of its raw string, whatever the usage
C16_AlwaysText ==
    (sg.op = "match_data_element" /\ sg.out.ok) =>
        sg.out.v.value = Some(Matched_Text(sg.value.value))

\* C16: every non-empty data element that match_data_element accepts is
\* stored with the value Matched::Text holding exactly its raw string,
\* whatever the declared usage (Text, Integer, Decimal, OneOf, Static), with
\* its index and its description; Matched::Int and Matched::Decimal are never
\* produced.  An empty data element that is accepted is stored with no value
\* (None).
C16_TextOrNone ==
    (sg.op = "match_data_element" /\ sg.out.ok) =>
        /\ sg.out.v.index = sg.pos
        /\ sg.out.v.description = sg.desc
        /\ sg.value.value # <<>> =>
              sg.out.v.value = Some([matched |-> "Text", text |-> sg.value.value])
        /\ sg.value.value = <<>> => sg.out.v.value = None

\* the value 1A is accepted for an optional an..2 of usage Integer and stored
\* as the text 1A
C16_Witness ==
    /\ sg.op = "match_data_element"
    /\ sg.value.value = <<"1", "A">>
    /\ sg.desc.usage = Usage_Integer
    /\ sg.desc.st = "O"
    /\ sg.out.ok
    /\ sg.out.v.value = Some([matched |-> "Text", text |-> <<"1", "A">>])

-----------------------------------------------------------------------------
(* The codes of the syntax errors                                           *)

\* the codes of the syntax errors in a sequence of DataElementErrors
DataElementCodes(errors) == {errors[k].syntax_error.code : k \in 1..Len(errors)}

\* the codes in an Option<SyntaxError>
OptionCodes(o) == {o[k].code : k \in 1..Len(o)}

\* the codes in a CompositeError or DataElementError of a SegmentError
EntryCodes(e) ==
    IF IsLeft(e) THEN OptionCodes(e.l.syntax_error) \cup DataElementCodes(e.l.errors)
    ELSE {e.r.syntax_error.code}

SegmentErrorCodes(e) ==
    OptionCodes(e.syntax_error) \cup UNION {EntryCodes(e.errors[k]) : k \in 1..Len(e.errors)}

MessageErrorCodes(e) ==
    OptionCodes(e.service_segment_error)
        \cup UNION {SegmentErrorCodes(e.segment_errors[k]) : k \in 1..Len(e.segment_errors)}

InterchangeErrorCodes(e) ==
    OptionCodes(e.service_segment_error)
        \cup UNION {MessageErrorCodes(e.message_errors[k]) : k \in 1..Len(e.message_errors)}

\* C17: every SyntaxError in an error tree returned by match_interchange has
\* code 12, 13, 16, 39 or 40; code 37 (invalid_format), code 35
\* (too_many_segment_repetitions) and the other declared codes are never
\* produced.
C17_ErrorCodes ==
    (mt.st = "done" /\ ~mt.result[1].ok) =>
        /\ InterchangeErrorCodes(mt.result[1].e) # {}
        /\ InterchangeErrorCodes(mt.result[1].e) \subseteq {12, 13, 16, 39, 40}

\* UNB+R'UNH+1'DTM+1'CTA+ICXX'UNT+'UNZ+1': the error tree holds the codes 40
\* (DTM too short), 39 (CTA too long) and 13 (UNT without its element)
C17_Witness ==
    /\ mt.st = "done"
    /\ known = <<D_rich>>
    /\ ~mt.result[1].ok
    /\ InterchangeErrorCodes(mt.result[1].e) = {13, 39, 40}

-----------------------------------------------------------------------------
(* Positions                                                                *)

\* position p is not after position q, in (line, column) order
NotAfter(p, q) == p.line < q.line \/ (p.line = q.line /\ p.column <= q.column)

\* C18: in every parsed interchange each data element (tags included) has
\* start <= end in (line, column) order, with lines and columns counted from
\* 1, and in depth-first order (segment by segment, slot by slot, component
\* by component) no data element starts before the end of the one before it.
C18_PositionsMonotone ==
    LET ds == AllDataElements(LexedSegments)
    IN  \A k \in 1..Len(ds) :
           /\ ds[k].start.line >= 1 /\ ds[k].start.column >= 1
           /\ ds[k].end.line >= 1 /\ ds[k].end.column >= 1
           /\ NotAfter(ds[k].start, ds[k].end)
           /\ k > 1 => NotAfter(ds[k - 1].end, ds[k].start)

\* the text +A, newline, A': the element A\nA starts on line 1 and ends on
\* line 2, at a smaller column
C18_Witness ==
    /\ lx.st = "ok"
    /\ text = <<"+", "A", "\n", "A", "'">>
    /\ Len(lx.segments) = 1
    /\ lx.segments[1].tag.start = [line |-> 1, column |-> 1]
    /\ lx.segments[1].elements[1].r.start = [line |-> 1, column |-> 2]
    /\ lx.segments[1].elements[1].r.end = [line |-> 2, column |-> 2]

-----------------------------------------------------------------------------
(* The raw segment that opens a segment group                               *)

\* the raw segment was handed to match_segment
Routed(segment) == \E j \in 1..Len(mt.routed) : mt.routed[j].segment = segment

\* C19: when the top raw segment matches a segment group description, the
\* matcher goes into the group's body with the raw stack unchanged, so the
\* triggering raw segment is matched by match_segment against the group's
\* first segment description and is among the group's matched segments or
\* the errors: every raw segment that has left the stack, the one that
\* opened a group included, was handed to match_segment.
C19_TriggerMatchedInGroup ==
    mt.st \in {"matching", "done"} =>
        \A k \in 1..Consumed : Routed(lx.segments[k])

\* NAD+MS'CTA+IC' against D_rich: NAD opens the group and CTA is matched in
\* it; both have left the stack, and match_segment was called once, for CTA
C19_Witness ==
    /\ mt.st = "done"
    /\ known = <<D_rich>>
    /\ Len(lx.segments) = 2
    /\ lx.segments[1].tag.value = <<"N", "A", "D">>
    /\ mt.stack = <<>>
    /\ Len(mt.routed) = 1
    /\ mt.routed[1].desc.tag = <<"C", "T", "A">>
    /\ ~Routed(lx.segments[1])
    /\ mt.result[1].ok
    /\ Len(mt.result[1].v.segments) = 1
    /\ IsLeft(mt.result[1].v.segments[1])
    /\ Len(mt.result[1].v.segments[1].l.segments) = 1

-----------------------------------------------------------------------------
(* The match of a raw segment with a segment description                    *)

\* the name holds the word at some place
HasWord(name, word) ==
    \E i \in 1..Len(name) :
        i + Len(word) - 1 <= Len(name)
        /\ \A k \in 1..Len(word) : name[i + k - 1] = word[k]

QualifierByName(name) ==
    HasWord(name, <<"Q", "u", "a", "l", "i", "f", "i", "e", "r">>)
    \/ HasWord(name, <<"q", "u", "a", "l", "i", "f", "i", "e", "r">>)

\* the first data elements of a sequence of slots, of a description or of a
\* raw segment: of the first slot, its first component when it is a composite
Firsts(elements) ==
    IF elements = <<>> THEN {}
    ELSE IF IsRight(elements[1]) THEN {elements[1].r}
    ELSE IF elements[1].l.elements = <<>> THEN {}
    ELSE {elements[1].l.elements[1]}

\* the values that the usage of a qualifier allows
Allowed(usage) ==
    CASE usage.type = "OneOf" -> {usage.choices[k].value : k \in 1..Len(usage.choices)}
      [] usage.type = "Static" -> {usage.value.value}
      [] OTHER -> {}

\* C20: without check_qualifier matches_segment is true iff the tag of the
\* description equals the tag value of the raw segment.  With
\* check_qualifier it is true iff the tags are equal, the first data element
\* of the description (the first component when the first slot is a
\* composite) has a name containing Qualifier or qualifier and a usage OneOf
\* or Static, the raw segment has a first data element, and one of the
\* choice values (OneOf) or the static value (Static) equals its raw value; a
\* description whose first data element is not a qualifier by name, or has
\* the usage Text, Integer or Decimal, never matches under check_qualifier.
C20_MatchesSegment ==
    sg.op = "matches_segment" =>
        /\ ~sg.check_qualifier => (sg.out <=> sg.desc.tag = sg.value.tag.value)
        /\ sg.check_qualifier =>
              (sg.out <=>
                  /\ sg.desc.tag = sg.value.tag.value
                  /\ \E d \in Firsts(sg.desc.elements) :
                        /\ QualifierByName(d.name)
                        /\ d.usage.type \in {"OneOf", "Static"}
                        /\ \E v \in Firsts(sg.value.elements) :
                              v.value \in Allowed(d.usage))
        /\ (/\ sg.check_qualifier
            /\ \A d \in Firsts(sg.desc.elements) :
                  \/ ~QualifierByName(d.name)
                  \/ d.usage.type \in {"Text", "Integer", "Decimal"})
           => ~sg.out

\* RFF+1:A' against an RFF whose composite begins with the data element
\* "Code qualifier" of the choices A and 1: a match under check_qualifier
C20_Witness ==
    /\ sg.op = "matches_segment"
    /\ sg.check_qualifier
    /\ text = <<"R", "F", "F", "+", "1", ":", "A", "'">>
    /\ sg.desc.tag = <<"R", "F", "F">>
    /\ sg.desc.elements # <<>>
    /\ IsLeft(sg.desc.elements[1])
    /\ sg.desc.elements[1].l.elements # <<>>
    /\ sg.desc.elements[1].l.elements[1].name
          = <<"C", "o", "d", "e", " ", "q", "u", "a", "l", "i", "f", "i", "e", "r">>
    /\ sg.desc.elements[1].l.elements[1].usage.type = "OneOf"
    /\ sg.out = TRUE

-----------------------------------------------------------------------------
(* The runs: qualifier check, removal, repetition                           *)

\* the descriptions that the call of frame k goes through
FrameDescs(k) ==
    IF mt.frames[k].group = None THEN InOrder(known[1])
    ELSE mt.frames[k].group[1].segments

\* the counters of the descriptions of a call, in order, without repetition
RECURSIVE Counters(_)
Counters(descs) ==
    IF descs = <<>> THEN <<>>
    ELSE LET rest == Counters(Tail(descs))
             c == IF IsLeft(Head(descs)) THEN Head(descs).l.counter
                  ELSE Head(descs).r.counter
         IN  IF rest # <<>> /\ rest[1] = c THEN rest ELSE <<c>> \o rest

\* the run that frame k is in, as the descriptions declare it: all the
\* descriptions with the counter of that run
DeclaredRun(k) ==
    LET descs == FrameDescs(k)
        cs == Counters(descs)
        c == cs[Len(cs) - Len(mt.frames[k].runs)]
    IN  {j \in 1..Len(descs) :
            (IF IsLeft(descs[j]) THEN descs[j].l.counter ELSE descs[j].r.counter) = c}

\* a raw segment is about to be tested against the run of the top frame
Testing == mt.st = "matching" /\ Top(mt).in_run /\ mt.stack # <<>>

\* C21 as stated: when a raw segment is tested against a run, the qualifier
\* is checked iff the run holds more than one description at that moment,
\* the descriptions with max_reps = 1 that were matched being removed.
C21_QualifierOfCurrentRun ==
    Testing => (Top(mt).check_qualifier <=> Len(Top(mt).next_descs) > 1)

\* C21: when a raw segment is tested against a run, the qualifier is checked
\* iff the run held more than one description when it was started, that is
\* iff more than one description carries the counter of the run; removing
\* matched descriptions from the run does not change check_qualifier, and a
\* run is tag-only iff it was started with a single description.
C21_QualifierOfDeclaredRun ==
    \A k \in 1..Len(mt.frames) :
        (mt.st = "matching" /\ mt.frames[k].in_run) =>
            /\ mt.frames[k].check_qualifier <=> Cardinality(DeclaredRun(k)) > 1
            /\ Len(mt.frames[k].next_descs) <= Cardinality(DeclaredRun(k))

\* RFF+ACE:O1'RFF+ZZZ:1' against D_rich: RFF+ACE has left the run, the run
\* holds RFF+AGO alone, and RFF+ZZZ is tested with check_qualifier still set
\* and so matches nothing
C21_Witness ==
    /\ Testing
    /\ known = <<D_rich>>
    /\ Top(mt).check_qualifier
    /\ Len(Top(mt).next_descs) = 1
    /\ Top(mt).next_descs[1] = Right(RFF(<<"4">>, <<"A", "G", "O">>))
    /\ Peek(mt).tag.value = <<"R", "F", "F">>
    /\ FirstValue(Peek(mt)) = <<<<"Z", "Z", "Z">>>>
    /\ next_match(mt) = 0

\* the place of a raw segment in the raw interchange, counted from 1
RawIndex(segment) == CHOOSE k \in 1..Len(lx.segments) : lx.segments[k] = segment

\* the description a raw segment is handed to match_segment with leaves the
\* run when its max_reps is 1, and only then; the others stay as they are, in
\* their order, and the matcher stays in the run
LeavesRun ==
    (mt.st = "matching" /\ CanSegment(mt)) =>
        LET run == Top(mt).next_descs
            i == next_match(mt)
        IN  /\ Top(mt').in_run
            /\ Top(mt').runs = Top(mt).runs
            /\ run[i].r.max_reps = 1 =>
                  /\ Len(Top(mt').next_descs) = Len(run) - 1
                  /\ \A k \in 1..Len(run) - 1 :
                        Top(mt').next_descs[k] = IF k < i THEN run[k] ELSE run[k + 1]
            /\ run[i].r.max_reps # 1 => Top(mt').next_descs = run

\* two raw segments that follow one another are never both handed to
\* match_segment with the same description of max_reps 1
NotTwice ==
    \A j \in 1..Len(mt.routed) - 1 :
        (/\ mt.routed[j].desc.max_reps = 1
         /\ RawIndex(mt.routed[j + 1].segment) = RawIndex(mt.routed[j].segment) + 1)
        => mt.routed[j + 1].desc # mt.routed[j].desc

\* C22: after a raw segment has been matched against a segment description
\* with max_reps = 1, with or without a SegmentError, the description is
\* removed from the current run: the next raw segment is never matched
\* against it, but is offered to the descriptions left in the run and then to
\* the following runs.
C22_RemovedAfterMatch == []NotTwice /\ [][LeavesRun]_vars

\* BGM++X'BGM+3+X' against D_flat: the first BGM was matched with an error
\* (code 13) and BGM has left its run, which is empty now; the second BGM is
\* tested against it, finds nothing, and UNT and UNZ are still ahead
C22_Witness ==
    /\ Testing
    /\ known = <<D_flat>>
    /\ Len(mt.routed) = 1
    /\ mt.routed[1].desc.tag = <<"B", "G", "M">>
    /\ mt.routed[1].desc.max_reps = 1
    /\ Len(Top(mt).errors) = 1
    /\ Top(mt).next_descs = <<>>
    /\ Peek(mt).tag.value = <<"B", "G", "M">>
    /\ RawIndex(Peek(mt)) = 2
    /\ Len(Top(mt).runs) = 2
    /\ CanMiss(mt)

\* the segment descriptions of the run of frame k that may be repeated
Repeatable(k) ==
    {j \in DeclaredRun(k) :
        IsRight(FrameDescs(k)[j]) /\ FrameDescs(k)[j].r.max_reps > 1}

\* C23: a segment description with max_reps = n > 1 stays in its run after
\* each match, and no upper bound is enforced: as long as the matcher is in
\* the run the description is in it, every raw segment tested there that
\* matches it is handed to match_segment, also the one after the n-th, and no
\* repetition error (code 35) is recorded.
C23_NoUpperBound ==
    /\ \A k \in 1..Len(mt.frames) :
          (mt.st = "matching" /\ mt.frames[k].in_run) =>
              \A j \in Repeatable(k) :
                  \E i \in 1..Len(mt.frames[k].next_descs) :
                      mt.frames[k].next_descs[i] = FrameDescs(k)[j]
    /\ Testing =>
          \A j \in Repeatable(Len(mt.frames)) :
              matches_segment(FrameDescs(Len(mt.frames))[j].r,
                              Top(mt).check_qualifier, Peek(mt))
                 => CanSegment(mt) \/ CanGroup(mt)
    /\ (mt.st = "done" /\ ~mt.result[1].ok) =>
          35 \notin InterchangeErrorCodes(mt.result[1].e)

\* DTM+137'DTM+137'DTM+137' against D_rich, whose DTM has max_reps 2: all
\* three are matched against DTM and the result is Ok with three segments
C23_Witness ==
    /\ mt.st = "done"
    /\ known = <<D_rich>>
    /\ Len(lx.segments) = 3
    /\ Len(mt.routed) = 3
    /\ \A j \in 1..3 : /\ mt.routed[j].desc.tag = <<"D", "T", "M">>
                       /\ mt.routed[j].desc.max_reps = 2
    /\ mt.result[1].ok
    /\ Len(mt.result[1].v.segments) = 3

-----------------------------------------------------------------------------
(* The slots of a segment, case by case                                     *)

\* the index that a matched slot carries
MatchIndex(e) == IF IsLeft(e) THEN e.l.index ELSE e.r.index

\* the matched slots of a matched segment that carry index p
MatchesAt(matches, p) == {k \in 1..Len(matches) : MatchIndex(matches[k]) = p}

\* the missing errors of the required data-element descriptions from the
\* from-th on, each with its zero-based index
RECURSIVE MissingFrom(_, _)
MissingFrom(descs, from) ==
    IF from > Len(descs) THEN <<>>
    ELSE (IF descs[from].st \in {"M", "R"}
          THEN <<[pos |-> from - 1, syntax_error |-> [code |-> 13]]>>
          ELSE <<>>) \o MissingFrom(descs, from + 1)

\* what the first data-element description says to the raw value, then the
\* missing errors of the descriptions after it
WrappedErrors(d, v) ==
    (IF match_data_element(0, d.elements[1], v).ok THEN <<>>
     ELSE <<match_data_element(0, d.elements[1], v).e>>)
        \o MissingFrom(d.elements, 2)

\* the composite description of slot p meets a bare raw data element
CompositeMeetsBare(p) ==
    /\ p <= Len(sg.desc.elements) /\ p <= Len(sg.value.elements)
    /\ IsLeft(sg.desc.elements[p]) /\ IsRight(sg.value.elements[p])
    /\ sg.desc.elements[p].l.elements # <<>>

InnerErrorsAt(errors, q) == {k \in 1..Len(errors) : errors[k].pos = q}

\* the raw components that slot p of the raw segment gives to the composite
\* description of the slot: those of a raw composite, or the bare element
RawComponents(p) ==
    IF IsLeft(sg.value.elements[p]) THEN sg.value.elements[p].l.elements
    ELSE <<sg.value.elements[p].r>>

\* slot p has a composite description that is matched against raw components
CompositeMatched(p) ==
    /\ p <= Len(sg.desc.elements) /\ p <= Len(sg.value.elements)
    /\ IsLeft(sg.desc.elements[p])
    /\ ~(/\ IsRight(sg.value.elements[p])
         /\ sg.value.elements[p].r.value = <<>>
         /\ sg.desc.elements[p].l.st = "N")

\* the status of the description of slot p
SlotStatus(p) ==
    IF IsLeft(sg.desc.elements[p]) THEN sg.desc.elements[p].l.st
    ELSE sg.desc.elements[p].r.st

\* C25, for the slots of a segment: a slot description (bare or composite)
\* beyond the last raw slot records exactly one missing error (code 13) with
\* the zero-based index of the slot when its status is M or R, and records
\* nothing and adds nothing to the match when it is O, D, C or N.
AbsentSlots ==
    \A p \in (Len(sg.value.elements) + 1)..Len(sg.desc.elements) :
        /\ SlotStatus(p) \in {"M", "R"} =>
              /\ ~sg.out.ok
              /\ \E k \in 1..Len(sg.out.e.errors) :
                    /\ ErrorsAt(sg.out.e.errors, p - 1) = {k}
                    /\ sg.out.e.errors[k] =
                          Right([pos |-> p - 1, syntax_error |-> [code |-> 13]])
        /\ SlotStatus(p) \in {"O", "D", "C", "N"} =>
              /\ sg.out.ok \/ ErrorsAt(sg.out.e.errors, p - 1) = {}
              /\ sg.out.ok => MatchesAt(sg.out.v.elements, p - 1) = {}

\* C25, for the data elements of a composite: the same for a data-element
\* description beyond the last raw component, inside the composite's result
AbsentComponents ==
    \A p \in 1..Len(sg.desc.elements) :
        CompositeMatched(p) =>
            \A q \in (Len(RawComponents(p)) + 1)..Len(sg.desc.elements[p].l.elements) :
                LET st == sg.desc.elements[p].l.elements[q].st
                IN  /\ st \in {"M", "R"} =>
                          /\ ~sg.out.ok
                          /\ \E k \in 1..Len(sg.out.e.errors) :
                                /\ ErrorsAt(sg.out.e.errors, p - 1) = {k}
                                /\ IsLeft(sg.out.e.errors[k])
                                /\ \E j \in 1..Len(sg.out.e.errors[k].l.errors) :
                                      /\ InnerErrorsAt(sg.out.e.errors[k].l.errors, q - 1) = {j}
                                      /\ sg.out.e.errors[k].l.errors[j] =
                                            [pos |-> q - 1, syntax_error |-> [code |-> 13]]
                    /\ st \in {"O", "D", "C", "N"} =>
                          /\ ~sg.out.ok =>
                                \A k \in ErrorsAt(sg.out.e.errors, p - 1) :
                                    InnerErrorsAt(sg.out.e.errors[k].l.errors, q - 1) = {}
                          /\ sg.out.ok =>
                                \A k \in MatchesAt(sg.out.v.elements, p - 1) :
                                    \A j \in 1..Len(sg.out.v.elements[k].l.elements) :
                                        sg.out.v.elements[k].l.elements[j].index # q - 1

\* C25: absent slots of a segment and absent data elements of a composite
\* are reported as missing (code 13, zero-based index) exactly when their
\* status is M or R.
C25_AbsentSlots == sg.op = "match_segment" => (AbsentSlots /\ AbsentComponents)

\* BGM+A:A' against a BGM of a composite of four data elements (M, O, O, R)
\* and a mandatory bare slot: the fourth data element is missing in the
\* composite (index 3), the third is not reported, and the second slot is
\* missing in the segment (index 1)
C25_Witness ==
    /\ sg.op = "match_segment"
    /\ text = <<"B", "G", "M", "+", "A", ":", "A", "'">>
    /\ sg.desc.elements =
          <<Left(desc_Composite("M", <<an("M", "AtMost", 2), an("O", "AtMost", 2),
                                       an("O", "AtMost", 2), an("R", "AtMost", 2)>>)),
            Right(an("M", "AtMost", 2))>>
    /\ sg.out = Err([pos |-> sg.pos, syntax_error |-> None,
                     errors |-> <<Left([pos |-> 0, syntax_error |-> None,
                                        errors |-> <<[pos |-> 3,
                                            syntax_error |-> [code |-> 13]]>>]),
                                  Right([pos |-> 1, syntax_error |-> [code |-> 13]])>>])

\* the bare description of slot p meets a raw composite
BareMeetsComposite(p) ==
    /\ p <= Len(sg.desc.elements) /\ p <= Len(sg.value.elements)
    /\ IsRight(sg.desc.elements[p]) /\ IsLeft(sg.value.elements[p])

\* every component of the raw composite of slot p would pass as the data
\* element that slot p describes
ComponentsWouldPass(p) ==
    \A j \in 1..Len(sg.value.elements[p].l.elements) :
        match_data_element(p - 1, sg.desc.elements[p].r,
                           sg.value.elements[p].l.elements[j]).ok

\* C26: a bare description against a raw composite: match_segment records
\* exactly one DataElementError with invalid_value (code 12) at the index of
\* the slot, whatever the components of the raw composite are, also when
\* each of them would satisfy the description, and goes on with the next
\* slot: a next slot that is invalid has its error after this one.
C26_BareMeetsComposite ==
    sg.op = "match_segment" =>
        \A p \in 1..Len(sg.desc.elements) :
            BareMeetsComposite(p) =>
                /\ ~sg.out.ok
                /\ \E k \in 1..Len(sg.out.e.errors) :
                      /\ ErrorsAt(sg.out.e.errors, p - 1) = {k}
                      /\ sg.out.e.errors[k] =
                            Right([pos |-> p - 1, syntax_error |-> [code |-> 12]])
                      /\ (p + 1) \in InvalidSlots(sg.desc, sg.value.elements) =>
                            /\ k < Len(sg.out.e.errors)
                            /\ ErrorPos(sg.out.e.errors[k + 1]) = p

\* BGM+A:A+AAA' against two mandatory an..2: the composite A:A gives code 12
\* at index 0 although A and A would both pass, and the next slot is checked
\* (code 39 at index 1)
C26_Witness ==
    /\ sg.op = "match_segment"
    /\ text = <<"B", "G", "M", "+", "A", ":", "A", "+", "A", "A", "A", "'">>
    /\ sg.desc.elements = <<Right(an("M", "AtMost", 2)), Right(an("M", "AtMost", 2))>>
    /\ BareMeetsComposite(1)
    /\ ComponentsWouldPass(1)
    /\ sg.out = Err([pos |-> sg.pos, syntax_error |-> None,
                     errors |-> <<Right([pos |-> 0, syntax_error |-> [code |-> 12]]),
                                  Right([pos |-> 1, syntax_error |-> [code |-> 39]])>>])

-----------------------------------------------------------------------------
(* The index of a segment                                                   *)

\* C27: the index of every matched Segment and the pos of every SegmentError
\* (both are the index that match_segment is called with) equal the
\* zero-based position of the raw segment in the raw interchange, also
\* inside a segment group and after a segment group.
C27_IndexIsRawPosition ==
    \A j \in 1..Len(mt.routed) :
        mt.routed[j].index = RawIndex(mt.routed[j].segment) - 1

\* without a segment group in the description the index is the raw position
IndexWithoutGroups ==
    known = <<D_flat>> => C27_IndexIsRawPosition

\* UNB+R'UNH+1'DTM+137'NAD+MS'CTA+IC'UNT+3'UNZ+1' against D_rich: CTA, the
\* fifth raw segment, is matched with index 3, UNT, the sixth, with index 7
\* and UNZ with index 8
C27_Witness ==
    /\ mt.st = "done"
    /\ known = <<D_rich>>
    /\ Len(lx.segments) = 7
    /\ Len(mt.routed) = 6
    /\ mt.result[1].ok
    /\ mt.routed[4].desc.tag = <<"C", "T", "A">>
    /\ RawIndex(mt.routed[4].segment) = 5 /\ mt.routed[4].index = 3
    /\ mt.routed[5].desc.tag = <<"U", "N", "T">>
    /\ RawIndex(mt.routed[5].segment) = 6 /\ mt.routed[5].index = 7
    /\ mt.routed[6].index = 8
    /\ mt.result[1].v.segments[5].r.index = 7

-----------------------------------------------------------------------------
(* The raw stack                                                            *)

\* the raw segments from the k-th on, as a stack: the k-th on top
SuffixStack(k) == reverse(SubSeq(lx.segments, k, Len(lx.segments)))

\* the stack holds a suffix of the raw segments in their order, and the raw
\* segments handed to match_segment are raw segments that have left the
\* stack, in input order, none twice
StackIsSuffix ==
    mt.st \in {"matching", "done"} =>
        /\ Len(mt.stack) <= Len(lx.segments)
        /\ mt.stack = SuffixStack(Len(lx.segments) - Len(mt.stack) + 1)
        /\ \A j \in 1..Len(mt.routed) :
              /\ \E k \in 1..Consumed : lx.segments[k] = mt.routed[j].segment
              /\ j > 1 => RawIndex(mt.routed[j - 1].segment) < RawIndex(mt.routed[j].segment)

\* a step of the walk takes the top of the stack or leaves the stack as it
\* is; after a miss the stack is as before, the popped segment on top again
TakenInOrder ==
    mt.st = "matching" =>
        /\ mt'.stack = mt.stack \/ (mt.stack # <<>> /\ mt'.stack = popped(mt))
        /\ CanMiss(mt) => (mt'.stack = mt.stack /\ Peek(mt') = Peek(mt))
        /\ (CanSegment(mt) \/ CanGroup(mt)) => mt'.stack = popped(mt)

\* C28: at every point of the walk, at every nesting depth, the raw stack
\* holds a suffix of the raw segment sequence in its original order:
\* segments are taken strictly in input order, a segment pushed back after a
\* miss is the segment just popped, and the matcher never reorders,
\* duplicates or modifies raw segments.
C28_StackIsSuffix == []StackIsSuffix /\ [][TakenInOrder]_vars

\* NAD, DTM and a third raw segment against D_rich: in the body of the group
\* that NAD opened, after DTM missed the description of NAD: the stack holds
\* DTM and the third segment, DTM on top
C28_Witness ==
    /\ mt.st = "matching"
    /\ known = <<D_rich>>
    /\ Len(mt.frames) = 2
    /\ Len(lx.segments) = 3
    /\ lx.segments[1].tag.value = <<"N", "A", "D">>
    /\ Len(Top(mt).runs) = 1
    /\ ~Top(mt).in_run
    /\ mt.routed = <<>>
    /\ mt.stack = <<lx.segments[3], lx.segments[2]>>
    /\ lx.segments[2].tag.value = <<"D", "T", "M">>

-----------------------------------------------------------------------------
(* Termination                                                              *)

\* the nesting depth of the segment groups in a sequence of descriptions
RECURSIVE Depth(_)
Depth(descs) ==
    IF descs = <<>> THEN 0
    ELSE LET rest == Depth(Tail(descs))
             here == IF IsLeft(Head(descs)) THEN 1 + Depth(Head(descs).l.segments)
                     ELSE 0
         IN  IF here > rest THEN here ELSE rest

\* the number of descriptions in a sequence of descriptions, groups and the
\* descriptions in them counted
RECURSIVE Size(_)
Size(descs) ==
    IF descs = <<>> THEN 0
    ELSE 1 + (IF IsLeft(Head(descs)) THEN Size(Head(descs).l.segments) ELSE 0)
           + Size(Tail(descs))

RECURSIVE Sum(_)
Sum(s) == IF s = <<>> THEN 0 ELSE Head(s) + Sum(Tail(s))

\* what is left to do: the raw segments on the stack, each weighing more than
\* any call can add, and for every call its runs ahead and the run it is in
Measure(m) ==
    IF m.st # "matching" THEN 0
    ELSE Len(m.stack) * (2 * Size(InOrder(known[1])) + 2)
         + Sum([k \in 1..Len(m.frames) |->
                   1 + 2 * Len(m.frames[k].runs)
                     + (IF m.frames[k].in_run THEN 1 ELSE 0)])

\* the calls are as deep as the segment groups are nested at most, and the
\* runs ahead of a call are the last runs of its descriptions, in their order
Bounded ==
    mt.st = "matching" =>
        /\ Len(mt.frames) <= 1 + Depth(InOrder(known[1]))
        /\ \A k \in 1..Len(mt.frames) :
              LET all == group_by(FrameDescs(k))
              IN  /\ Len(mt.frames[k].runs) <= Len(all)
                  /\ mt.frames[k].runs
                        = SubSeq(all, Len(all) - Len(mt.frames[k].runs) + 1, Len(all))

\* every step of the walk brings the end nearer: a turn of the inner loop
\* takes a raw segment from the stack for good or leaves the run, and a run
\* that is started is the first of the runs ahead and is not ahead any more
Progress ==
    mt.st = "matching" =>
        /\ Measure(mt') < Measure(mt)
        /\ Top(mt).in_run =>
              \/ Len(mt'.stack) = Len(mt.stack) - 1
              \/ /\ mt'.stack = mt.stack
                 /\ Len(mt'.frames) = Len(mt.frames)
                 /\ ~Top(mt').in_run
        /\ CanNextRun(mt) =>
              /\ Top(mt').next_descs = Head(Top(mt).runs)
              /\ Top(mt').runs = Tail(Top(mt).runs)
        /\ \A k \in 1..Len(mt.frames) :
              k <= Len(mt'.frames) => Len(mt'.frames[k].runs) <= Len(mt.frames[k].runs)

\* match_interchange has returned its result
Returned == mt.st = "done"

\* match_interchange has been called
Called == mt.st = "matching"

\* C29: match_interchange terminates for every description and every raw
\* segment sequence: each turn of the inner loop removes a raw segment from
\* the stack for good or leaves the current run, the runs are visited once
\* each in the order of the descriptions, and the calls are nested no deeper
\* than the segment groups.
C29_Terminates == (Called ~> Returned) /\ []Bounded /\ [][Progress]_vars

\* NAD+MS'CTA+IC'COM+1' against D_nested: the walk is in the body of the
\* group inside the group, three calls deep, with COM on the stack
C29_Witness ==
    /\ mt.st = "matching"
    /\ known = <<D_nested>>
    /\ Depth(InOrder(known[1])) = 2
    /\ Len(mt.frames) = 3
    /\ Top(mt).in_run
    /\ Len(mt.stack) = 1
    /\ Peek(mt).tag.value = <<"C", "O", "M">>
    /\ CanSegment(mt)

-----------------------------------------------------------------------------
(* Whitespace                                                               *)

\* where the segments start: at the first character, or after the nine
\* characters of the advice
SegmentsStart == UNA_parser(text, 1).i

\* the input, or what follows the advice, starts with whitespace
StartsWithWhitespace ==
    SegmentsStart <= Len(text) /\ is_whitespace(text[SegmentsStart])

\* the first segment has been parsed
FirstParsed == lx.st \in {"segments", "ok"} /\ Len(lx.segments) >= 1

\* a tag as the descriptions have it: three letters
ThreeLetters(v) == Len(v) = 3 /\ \A k \in 1..3 : v[k] \in {"A", "N", "U"}

\* where the last part of a raw segment ends
LastEnd(s) ==
    LET e == s.elements[Len(s.elements)]
    IN  IF IsLeft(e) THEN e.l.elements[Len(e.l.elements)].end ELSE e.r.end

\* a segment is parsed: its tag starts where the parser stood, with nothing
\* skipped, and between the end of its last part and the place the parser
\* goes on from there is the segment separator and then whitespace only
SkipsAfterSeparatorOnly ==
    (lx.st = "segments" /\ lx'.st = "segments"
        /\ Len(lx'.segments) = Len(lx.segments) + 1) =>
        LET s == lx'.segments[Len(lx'.segments)]
        IN  /\ s.tag.start = PosAt(text, lx.i)
            /\ s.tag.value = SubSeq(text, lx.i, lx.i + Len(s.tag.value) - 1)
            /\ \E j \in (lx.i + 1)..lx'.i :
                  /\ text[j - 1] = lx.una.segment_sep
                  /\ LastEnd(s) = PosAt(text, j - 1)
                  /\ \A k \in j..(lx'.i - 1) : is_whitespace(text[k])
                  /\ lx'.i <= Len(text) => ~is_whitespace(text[lx'.i])

\* leading whitespace is the first character of the first tag, unless the
\* advice declares it as a separator: then the first tag is empty
LeadingInTagUnlessSeparator ==
    (FirstParsed /\ StartsWithWhitespace) =>
        /\ lx.segments[1].tag.start = PosAt(text, SegmentsStart)
        /\ IF is_separator(lx.una, text[SegmentsStart])
           THEN lx.segments[1].tag.value = <<>>
           ELSE /\ lx.segments[1].tag.value # <<>>
                /\ lx.segments[1].tag.value[1] = text[SegmentsStart]
        /\ ~ThreeLetters(lx.segments[1].tag.value)

\* C30 as it is written: whitespace at the start of the input or directly
\* after the advice is not skipped and is the first character of the first
\* segment's tag, which is therefore no three-letter tag.
C30_LeadingWhitespace ==
    (FirstParsed /\ StartsWithWhitespace) =>
        /\ lx.segments[1].tag.start = PosAt(text, SegmentsStart)
        /\ lx.segments[1].tag.value # <<>>
        /\ lx.segments[1].tag.value[1] = text[SegmentsStart]
        /\ ~ThreeLetters(lx.segments[1].tag.value)

\* C30: whitespace is skipped only directly after a segment separator;
\* whitespace at the start of the input or directly after the advice is not
\* skipped: it is the first character of the first segment's tag, or, when
\* the advice declares it as a separator, it is read as that separator and
\* the first tag is empty; either way the first tag is no three-letter tag.
C30_LeadingWhitespaceOfAdvice ==
    []LeadingInTagUnlessSeparator /\ [][SkipsAfterSeparatorOnly]_vars

\* "UNA:+.  ' A+A'": the space after the advice is the escape of the advice
\* and no separator, and the first tag is " A"
C30_Witness ==
    /\ FirstParsed
    /\ SegmentsStart = 10
    /\ StartsWithWhitespace
    /\ ~is_separator(lx.una, text[SegmentsStart])
    /\ is_escape(lx.una, text[SegmentsStart])
    /\ lx.segments[1].tag.value = <<" ", "A">>

====
